---- MODULE Spec2Model ----
(***************************************************************************)
(* Turn-control state machine, escalation engine and conversation record   *)
(* of the konko-agent core (agent_core, agent_runtime).                    *)
(*                                                                         *)
(* Conventions:                                                            *)
(*   - Python None is NULL for optional strings, NoPolicyId for the        *)
(*     optional policy id, NoTime for an optional timestamp and NoResult   *)
(*     for Optional[EscalationResult].                                     *)
(*   - Utterances are strings; str.split() is the table Words.             *)
(*   - A capability call (llm_provider.ainvoke) either raises, modelled    *)
(*     as the reply FAIL, or returns one of a small set of texts.          *)
(*   - Scores and confidences are integers in tenths (0.7 is 7).           *)
(***************************************************************************)
EXTENDS Integers, Sequences, FiniteSets, TLC

\* ------------------------------------------------------------- bounds --
MaxTurns == 2
MaxTime == 1
MaxPolicies == 2

\* ----------------------------------------------------- Python values --
NULL == "<None>"
FAIL == "<raise>"
NoPolicyId == <<>>
NoTime == -1
\* an empty dict
EmptyDict == [k \in {} |-> NULL]

\* the element order of a Python loop over a sequence
Range(s) == {s[i] : i \in DOMAIN s}

Last(s) == s[Len(s)]

\* ------------------------------------------------------- text tables --
\* str.split(): the words of each utterance of the model
Words ==
  [u \in {"jane", "talk to a Human", "no my email is x@y.com", "hello",
          "sorry jane", "i meant bob"} |->
     CASE u = "jane" -> <<"jane">>
       [] u = "talk to a Human" -> <<"talk", "to", "a", "Human">>
       [] u = "no my email is x@y.com" -> <<"no", "my", "email", "is", "x@y.com">>
       [] u = "hello" -> <<"hello">>
       [] u = "sorry jane" -> <<"sorry", "jane">>
       [] u = "i meant bob" -> <<"i", "meant", "bob">>]

Utterances == DOMAIN Words

\* the characters of each word, keyword and field name of the model
Chars ==
  [w \in {"jane", "talk", "to", "a", "Human", "human", "no", "my", "email",
          "is", "x@y.com", "hello", "sorry", "i", "meant", "bob", "name",
          "man", "a@b.com", "EMAIL", "NAME", "mail", "x", "no,", "actually",
          "wrong", "correct", "work_email"} |->
     CASE w = "work_email" ->
            <<"w", "o", "r", "k", "_", "e", "m", "a", "i", "l">>
       [] w = "jane" -> <<"j", "a", "n", "e">>
       [] w = "talk" -> <<"t", "a", "l", "k">>
       [] w = "to" -> <<"t", "o">>
       [] w = "a" -> <<"a">>
       [] w = "Human" -> <<"H", "u", "m", "a", "n">>
       [] w = "human" -> <<"h", "u", "m", "a", "n">>
       [] w = "no" -> <<"n", "o">>
       [] w = "my" -> <<"m", "y">>
       [] w = "email" -> <<"e", "m", "a", "i", "l">>
       [] w = "is" -> <<"i", "s">>
       [] w = "x@y.com" -> <<"x", "@", "y", ".", "c", "o", "m">>
       [] w = "hello" -> <<"h", "e", "l", "l", "o">>
       [] w = "sorry" -> <<"s", "o", "r", "r", "y">>
       [] w = "i" -> <<"i">>
       [] w = "meant" -> <<"m", "e", "a", "n", "t">>
       [] w = "bob" -> <<"b", "o", "b">>
       [] w = "name" -> <<"n", "a", "m", "e">>
       [] w = "man" -> <<"m", "a", "n">>
       [] w = "a@b.com" -> <<"a", "@", "b", ".", "c", "o", "m">>
       [] w = "EMAIL" -> <<"E", "M", "A", "I", "L">>
       [] w = "NAME" -> <<"N", "A", "M", "E">>
       [] w = "mail" -> <<"m", "a", "i", "l">>
       [] w = "x" -> <<"x">>
       [] w = "no," -> <<"n", "o", ",">>
       [] w = "actually" -> <<"a", "c", "t", "u", "a", "l", "l", "y">>
       [] w = "wrong" -> <<"w", "r", "o", "n", "g">>
       [] w = "correct" -> <<"c", "o", "r", "r", "e", "c", "t">>]

\* str.lower() and str.upper() on the words of the model
Lower(w) ==
  CASE w = "Human" -> "human"
    [] w = "EMAIL" -> "email"
    [] w = "NAME" -> "name"
    [] OTHER -> w

Upper(w) ==
  CASE w = "email" -> "EMAIL"
    [] w = "name" -> "NAME"
    [] w = "unknown" -> "UNKNOWN"
    [] w = "correction" -> "CORRECTION"
    [] OTHER -> w

\* Python "a in b" on two strings, computed on their characters
IsSubstr(a, b) ==
  LET ca == Chars[a]
      cb == Chars[b]
  IN \E i \in 0..(Len(cb) - Len(ca)) :
       \A k \in 1..Len(ca) : cb[i + k] = ca[k]


\* float(): the numeric texts of the model, in tenths; others do not parse
ParseFloat ==
  [t \in {"0.9", "0.2", "1.5", "0.7", "0.0"} |->
     CASE t = "0.9" -> 9
       [] t = "0.2" -> 2
       [] t = "1.5" -> 15
       [] t = "0.7" -> 7
       [] t = "0.0" -> 0]

Min(a, b) == IF a < b THEN a ELSE b
Max(a, b) == IF a > b THEN a ELSE b

\* dict.get(key, default)
Get(d, key, default) == IF key \in DOMAIN d THEN d[key] ELSE default

\* ------------------------------------------------------ configuration --
\* agent_config.schemas.FieldConfig
FieldName == [name |-> "name", field_type |-> "text", required |-> TRUE,
              validation_pattern |-> NULL]
FieldEmail == [name |-> "email", field_type |-> "email", required |-> TRUE,
               validation_pattern |-> NULL]
FieldNick == [name |-> "name", field_type |-> "text", required |-> FALSE,
              validation_pattern |-> "^[a-z]+$"]
FieldWorkEmail == [name |-> "work_email", field_type |-> "email",
                   required |-> TRUE, validation_pattern |-> NULL]

\* agent_config.schemas.EscalationPolicy
PolKeyword ==
  [enabled |-> TRUE, reason |-> "wants human", policy_type |-> "keyword",
   config |-> [keywords |-> <<"human">>]]
PolKeywordWord ==
  [enabled |-> TRUE, reason |-> "said man", policy_type |-> "keyword",
   config |-> [keywords |-> <<"man", "Human">>, case_sensitive |-> TRUE,
               match_whole_word |-> TRUE]]
PolKeywordOff ==
  [enabled |-> FALSE, reason |-> "disabled keyword", policy_type |-> "keyword",
   config |-> [keywords |-> <<"human">>]]
PolTimeout ==
  [enabled |-> TRUE, reason |-> "too long", policy_type |-> "timeout",
   config |-> [max_duration_seconds |-> "0.0"]]
PolSentiment ==
  [enabled |-> TRUE, reason |-> "angry user", policy_type |-> "sentiment",
   config |-> [include_history |-> FALSE]]
PolIntent ==
  [enabled |-> TRUE, reason |-> "asked for agent", policy_type |-> "llm_intent",
   config |-> [confidence_threshold |-> 8]]
PolCompletion ==
  [enabled |-> TRUE, reason |-> "all collected", policy_type |-> "completion",
   config |-> [required_fields |-> <<"email">>]]
PolIncomplete ==
  [enabled |-> TRUE, reason |-> "data missing", policy_type |-> "completion",
   config |-> [required_fields |-> <<"name", "email">>,
               escalate_when_complete |-> FALSE]]

\* the policies the engine is called with: the ones above, a timeout policy
\* whose maximum is not a number and one without a maximum, a completion
\* policy with an empty list, and a sentiment policy with its own threshold
PolicyPool ==
  {PolKeyword, PolKeywordWord, PolKeywordOff, PolTimeout, PolSentiment,
   PolIntent, PolCompletion, PolIncomplete,
   [enabled |-> TRUE, reason |-> "too long", policy_type |-> "timeout",
    config |-> [max_duration_seconds |-> "soon"]],
   [enabled |-> TRUE, reason |-> "too long", policy_type |-> "timeout",
    config |-> EmptyDict],
   [enabled |-> TRUE, reason |-> "all collected", policy_type |-> "completion",
    config |-> [required_fields |-> <<>>]],
   [enabled |-> TRUE, reason |-> "angry user", policy_type |-> "sentiment",
    config |-> [threshold |-> 9]]}

\* every policy list of at most n policies of the pool
PolicyListsUpTo(n) ==
  UNION {[1..k -> PolicyPool] : k \in 0..n}

\* the configurations (AgentConfig: at least one field, unique field names)
\* of the conversations that are run turn by turn
Configs ==
  { [fields |-> <<FieldName, FieldEmail>>,
     escalation_policies |-> <<>>],
    [fields |-> <<FieldEmail>>,
     escalation_policies |-> <<PolKeywordOff>>],
    [fields |-> <<FieldNick, FieldEmail>>,
     escalation_policies |-> <<PolCompletion, PolSentiment, PolKeyword>>],
    [fields |-> <<FieldName, FieldEmail>>,
     escalation_policies |-> <<PolIntent, PolTimeout, PolKeywordWord,
                               PolKeyword>>],
    [fields |-> <<FieldNick, FieldEmail>>,
     escalation_policies |-> <<>>] }

Greeting == "Hello! I'm here to help collect some information."

\* ------------------------------------------------- conversation record --
\* ConversationState() followed by add_message(AGENT, greeting): the record
\* that start_conversation() builds at time t
NewRecord(t) ==
  [status |-> "active",
   messages |-> <<[role |-> "agent", content |-> Greeting]>>,
   collected_fields |-> EmptyDict,
   escalation_triggered |-> FALSE,
   escalation_reason |-> NULL,
   escalation_policy_id |-> NoPolicyId,
   failure_reason |-> NULL,
   started_at |-> t,
   ended_at |-> NoTime]

\* add_message that leaves a conversation that is not active as it is
add_message_active_only(r, role, content, t) ==
  IF r.status # "active" THEN r
  ELSE [r EXCEPT !.messages = Append(@, [role |-> role, content |-> content])]

\* add_message that puts the conversation back to active
add_message_reopens(r, role, content, t) ==
  [r EXCEPT !.messages = Append(@, [role |-> role, content |-> content]),
            !.status = "active"]

\* ConversationState.add_message at time t
add_message(r, role, content, t) ==
  [r EXCEPT !.messages = Append(@, [role |-> role, content |-> content])]

\* update_field_value that rebuilds the field map from the written entry
update_field_value_alone(r, field_name, value, is_valid, t) ==
  [r EXCEPT !.collected_fields =
     [n \in {field_name} |->
        [value |-> value, is_valid |-> is_valid, attempts |-> 1]]]

\* Mutant of update_field_value: a value already stored is kept, only the
\* attempt is counted.
update_field_value_first_wins(r, field_name, value, is_valid, t) ==
  IF field_name \in DOMAIN r.collected_fields
  THEN [r EXCEPT !.collected_fields[field_name].attempts = @ + 1]
  ELSE [r EXCEPT !.collected_fields =
          [n \in (DOMAIN r.collected_fields) \cup {field_name} |->
             IF n = field_name
             THEN [value |-> value, is_valid |-> is_valid, attempts |-> 1]
             ELSE r.collected_fields[n]]]

\* Mutant of update_field_value: a value written over an earlier one is held
\* as unconfirmed.
update_field_value_unconfirmed(r, field_name, value, is_valid, t) ==
  LET seen == field_name \in DOMAIN r.collected_fields
      new == [value |-> value, is_valid |-> is_valid /\ ~seen,
              attempts |-> IF seen
                           THEN r.collected_fields[field_name].attempts + 1
                           ELSE 1]
  IN [r EXCEPT !.collected_fields =
                 [n \in (DOMAIN r.collected_fields) \cup {field_name} |->
                    IF n = field_name THEN new ELSE r.collected_fields[n]]]

\* ConversationState.update_field_value at time t: the FieldValue is created
\* with attempts 0 when the name is new, then value and flag overwritten and
\* attempts incremented
update_field_value(r, field_name, value, is_valid, t) ==
  LET old == IF field_name \in DOMAIN r.collected_fields
             THEN r.collected_fields[field_name]
             ELSE [value |-> NULL, is_valid |-> FALSE, attempts |-> 0]
      new == [value |-> value, is_valid |-> is_valid,
              attempts |-> old.attempts + 1]
  IN [r EXCEPT !.collected_fields =
                 [n \in (DOMAIN r.collected_fields) \cup {field_name} |->
                    IF n = field_name THEN new ELSE r.collected_fields[n]]]

get_collected_data(r) ==
  [n \in {m \in DOMAIN r.collected_fields :
            r.collected_fields[m].is_valid
            /\ r.collected_fields[m].value # NULL} |->
     r.collected_fields[n].value]

\* mark_escalated that does not record the policy id
mark_escalated_without_policy(r, reason, policy_id, t) ==
  [r EXCEPT !.status = "escalated",
            !.escalation_triggered = TRUE,
            !.escalation_reason = reason,
            !.ended_at = t]

\* ConversationState.mark_escalated at time t

mark_escalated(r, reason, policy_id, t) ==
  [r EXCEPT !.status = "escalated",
            !.escalation_triggered = TRUE,
            !.escalation_reason = reason,
            !.escalation_policy_id = policy_id,
            !.ended_at = t]

\* mark_completed that writes the status of mark_failed
mark_completed_as_failed(r, t) ==
  [r EXCEPT !.status = "failed", !.ended_at = t]

\* ConversationState.mark_completed at time t
mark_completed(r, t) ==
  [r EXCEPT !.status = "completed", !.ended_at = t]

mark_failed(r, reason, t) ==
  [r EXCEPT !.status = "failed",
            !.failure_reason = IF reason # NULL /\ reason # "" THEN reason ELSE @,
            !.ended_at = t]

get_duration_seconds(r, t) ==
  LET end_time == IF r.ended_at # NoTime THEN r.ended_at ELSE t
  IN end_time - r.started_at

\* --------------------------------------------------- escalation engine --
\* Optional[EscalationResult]: None
NoResult ==
  [should_escalate |-> FALSE, policy_id |-> NoPolicyId, policy_type |-> NULL,
   reason |-> NULL, confidence |-> 0]

\* EscalationResult(should_escalate=True, ...)
EscalationResult(policy_id, policy_type, reason, confidence) ==
  [should_escalate |-> TRUE, policy_id |-> policy_id,
   policy_type |-> policy_type, reason |-> reason, confidence |-> confidence]

\* f"policy_{idx}_{policy.policy_type}", idx counted from 0
PolicyId(idx, policy_type) == <<"policy", idx, policy_type>>

POLICY_PRIORITY(policy_type) ==
  CASE policy_type = "keyword" -> 1
    [] policy_type = "timeout" -> 2
    [] policy_type = "sentiment" -> 3
    [] policy_type = "llm_intent" -> 4
    [] policy_type = "completion" -> 5
    [] OTHER -> 999

\* KeywordPolicyHandler.evaluate
KeywordEvaluate(r, user_message, config, policy_id, reason) ==
  LET keywords == Get(config, "keywords", <<>>)
      case_sensitive == Get(config, "case_sensitive", FALSE)
      match_whole_word == Get(config, "match_whole_word", FALSE)
      words == [i \in DOMAIN Words[user_message] |->
                  IF case_sensitive THEN Words[user_message][i]
                  ELSE Lower(Words[user_message][i])]
      Matches(keyword) ==
        LET keyword_to_match == IF case_sensitive THEN keyword
                                ELSE Lower(keyword)
        IN IF match_whole_word
           THEN keyword_to_match \in Range(words)
           ELSE \E w \in Range(words) : IsSubstr(keyword_to_match, w)
  IN IF keywords = <<>> THEN NoResult
     ELSE IF \E i \in DOMAIN keywords : Matches(keywords[i])
          THEN EscalationResult(policy_id, "keyword", reason, 10)
          ELSE NoResult

\* Mutant of TimeoutEvaluate: a duration equal to the maximum triggers too.
TimeoutEvaluate_at_maximum(r, t, config, policy_id, reason) ==
  LET max_duration == Get(config, "max_duration_seconds", NULL)
  IN IF max_duration = NULL THEN NoResult
     ELSE IF max_duration \notin DOMAIN ParseFloat THEN NoResult
     ELSE IF get_duration_seconds(r, t) * 10 >= ParseFloat[max_duration]
          THEN EscalationResult(policy_id, "timeout", reason, 10)
          ELSE NoResult

\* TimeoutPolicyHandler.evaluate at clock reading t: float(max_duration) is
\* in tenths, like every number parsed from a text; a value float() rejects
\* gives None
TimeoutEvaluate(r, t, config, policy_id, reason) ==
  LET max_duration == Get(config, "max_duration_seconds", NULL)
  IN IF max_duration = NULL THEN NoResult
     ELSE IF max_duration \notin DOMAIN ParseFloat THEN NoResult
     ELSE IF get_duration_seconds(r, t) * 10 > ParseFloat[max_duration]
          THEN EscalationResult(policy_id, "timeout", reason, 10)
          ELSE NoResult

\* Mutant of CompletionEvaluate: an empty list of required fields counts as
\* collected.
CompletionEvaluate_empty_list(r, config, policy_id, reason) ==
  LET required_fields == Get(config, "required_fields", <<>>)
      escalate_when_complete == Get(config, "escalate_when_complete", TRUE)
      collected_field_names == DOMAIN get_collected_data(r)
      all_collected == Range(required_fields) \subseteq collected_field_names
  IN IF escalate_when_complete /\ all_collected
     THEN EscalationResult(policy_id, "completion", reason, 10)
     ELSE IF ~escalate_when_complete /\ ~all_collected
          THEN EscalationResult(policy_id, "completion", reason, 10)
          ELSE NoResult

\* CompletionPolicyHandler.evaluate
CompletionEvaluate(r, config, policy_id, reason) ==
  LET required_fields == Get(config, "required_fields", <<>>)
      escalate_when_complete == Get(config, "escalate_when_complete", TRUE)
      collected_field_names == DOMAIN get_collected_data(r)
      all_collected == Range(required_fields) \subseteq collected_field_names
  IN IF required_fields = <<>> THEN NoResult
     ELSE IF escalate_when_complete /\ all_collected
          THEN EscalationResult(policy_id, "completion", reason, 10)
          ELSE IF ~escalate_when_complete /\ ~all_collected
               THEN EscalationResult(policy_id, "completion", reason, 10)
               ELSE NoResult

\* Mutant of ParseSentimentResponse: the score is returned as rated.
ParseSentimentResponse_unclamped(response) ==
  IF response \in DOMAIN ParseFloat
  THEN ParseFloat[response]
  ELSE NoTime

\* SentimentPolicyHandler._parse_sentiment_response: the clamped score, or
\* NoTime for None
ParseSentimentResponse(response) ==
  IF response \in DOMAIN ParseFloat
  THEN Max(0, Min(10, ParseFloat[response]))
  ELSE NoTime

\* the texts the capability may answer to the sentiment prompt
SentimentReplies == {"0.9", "0.2", "1.5", "furious"}

\* SentimentPolicyHandler.evaluate; reply is what ainvoke gives (FAIL when it
\* raises)
SentimentEvaluate(reply, config, policy_id, reason) ==
  LET threshold == Get(config, "threshold", 7)
      sentiment_score == ParseSentimentResponse(reply)
  IN IF reply = FAIL THEN NoResult
     ELSE IF sentiment_score # NoTime /\ sentiment_score >= threshold
          THEN EscalationResult(policy_id, "sentiment", reason, sentiment_score)
          ELSE NoResult

\* the lines of the texts the capability may answer to the intent prompt,
\* each line as <<prefix, rest>>
IntentLines ==
  [t \in {"DETECTED: human / CONFIDENCE: 0.9",
          "DETECTED: human / CONFIDENCE: 0.2",
          "DETECTED: NONE / CONFIDENCE: 0.9",
          "DETECTED: human / CONFIDENCE: high",
          "DETECTED: human / CONFIDENCE: 0.9 / CONFIDENCE: high",
          "no idea"} |->
     CASE t = "DETECTED: human / CONFIDENCE: 0.9" ->
            << <<"DETECTED:", "human">>, <<"CONFIDENCE:", "0.9">> >>
       [] t = "DETECTED: human / CONFIDENCE: 0.2" ->
            << <<"DETECTED:", "human">>, <<"CONFIDENCE:", "0.2">> >>
       [] t = "DETECTED: NONE / CONFIDENCE: 0.9" ->
            << <<"DETECTED:", "NONE">>, <<"CONFIDENCE:", "0.9">> >>
       [] t = "DETECTED: human / CONFIDENCE: high" ->
            << <<"DETECTED:", "human">>, <<"CONFIDENCE:", "high">> >>
       [] t = "DETECTED: human / CONFIDENCE: 0.9 / CONFIDENCE: high" ->
            << <<"DETECTED:", "human">>, <<"CONFIDENCE:", "0.9">>,
               <<"CONFIDENCE:", "high">> >>
       [] t = "no idea" -> << <<"", "no idea">> >>]

IntentReplies == DOMAIN IntentLines

\* LLMIntentPolicyHandler._parse_intent_response: the loop over the lines
\* from line i on, with the values found so far; a confidence that does not
\* parse ends the loop (ValueError) and keeps what was found
RECURSIVE ParseIntentFrom(_, _, _, _)
ParseIntentFrom(lines, i, detected_intent, confidence) ==
  IF i > Len(lines)
  THEN [detected_intent |-> detected_intent, confidence |-> confidence]
  ELSE IF lines[i][1] = "DETECTED:"
       THEN ParseIntentFrom(lines, i + 1,
              IF Upper(lines[i][2]) # "NONE" THEN lines[i][2]
              ELSE detected_intent,
              confidence)
       ELSE IF lines[i][1] = "CONFIDENCE:"
            THEN IF lines[i][2] \in DOMAIN ParseFloat
                 THEN ParseIntentFrom(lines, i + 1, detected_intent,
                        Max(0, Min(10, ParseFloat[lines[i][2]])))
                 ELSE [detected_intent |-> detected_intent,
                       confidence |-> confidence]
            ELSE ParseIntentFrom(lines, i + 1, detected_intent, confidence)

ParseIntentResponse(response) ==
  ParseIntentFrom(IntentLines[response], 1, NULL, 0)

\* LLMIntentPolicyHandler.evaluate
IntentEvaluate(reply, config, policy_id, reason) ==
  LET confidence_threshold == Get(config, "confidence_threshold", 8)
      parsed == ParseIntentResponse(reply)
  IN IF reply = FAIL THEN NoResult
     ELSE IF parsed.detected_intent # NULL /\ parsed.detected_intent # ""
             /\ parsed.confidence >= confidence_threshold
          THEN EscalationResult(policy_id, "llm_intent", reason,
                                parsed.confidence)
          ELSE NoResult

\* the handler HANDLER_CLASSES selects for the policy; reply is the answer the
\* capability gives this handler if the handler asks
HandlerEvaluate(policy, idx, r, user_message, t, reply) ==
  LET policy_id == PolicyId(idx, policy.policy_type)
  IN CASE policy.policy_type = "keyword" ->
            KeywordEvaluate(r, user_message, policy.config, policy_id,
                            policy.reason)
       [] policy.policy_type = "timeout" ->
            TimeoutEvaluate(r, t, policy.config, policy_id, policy.reason)
       [] policy.policy_type = "sentiment" ->
            SentimentEvaluate(reply, policy.config, policy_id, policy.reason)
       [] policy.policy_type = "llm_intent" ->
            IntentEvaluate(reply, policy.config, policy_id, policy.reason)
       [] policy.policy_type = "completion" ->
            CompletionEvaluate(r, policy.config, policy_id, policy.reason)

\* the handlers that issue a capability call when evaluated
UsesCapability(policy) == policy.policy_type \in {"sentiment", "llm_intent"}

\* the answers the capability may give to the handler of a policy
RepliesFor(policy) ==
  CASE policy.policy_type = "sentiment" -> SentimentReplies \cup {FAIL}
    [] policy.policy_type = "llm_intent" -> IntentReplies \cup {FAIL}
    [] OTHER -> {FAIL}

\* one answer per configured policy: oracle[i] is the answer to the handler of
\* policies[i]
RECURSIVE OraclesUpTo(_, _)
OraclesUpTo(policies, n) ==
  IF n = 0 THEN {<<>>}
  ELSE {Append(o, x) : o \in OraclesUpTo(policies, n - 1),
                       x \in RepliesFor(policies[n])}

Oracles(policies) == OraclesUpTo(policies, Len(policies))

\* _get_sorted_policies without the sort: the enabled pairs as configured
get_sorted_policies_unsorted(policies) ==
  LET all == [i \in 1..Len(policies) |-> [policy |-> policies[i], idx |-> i - 1]]
      IsEnabled(x) == x.policy.enabled
  IN SelectSeq(all, IsEnabled)

\* Mutant of get_sorted_policies: the policies that are not enabled are kept.
get_sorted_policies_all(policies) ==
  LET all == [i \in 1..Len(policies) |-> [policy |-> policies[i], idx |-> i - 1]]
      Bucket(p) ==
        LET HasPriority(x) == POLICY_PRIORITY(x.policy.policy_type) = p
        IN SelectSeq(all, HasPriority)
  IN Bucket(1) \o Bucket(2) \o Bucket(3) \o Bucket(4) \o Bucket(5)
     \o Bucket(999)

\* EscalationEngine._get_sorted_policies: the enabled (policy, idx) pairs,
\* stably sorted by POLICY_PRIORITY
get_sorted_policies(policies) ==
  LET all == [i \in 1..Len(policies) |-> [policy |-> policies[i], idx |-> i - 1]]
      IsEnabled(x) == x.policy.enabled
      enabled_policies == SelectSeq(all, IsEnabled)
      Bucket(p) ==
        LET HasPriority(x) == POLICY_PRIORITY(x.policy.policy_type) = p
        IN SelectSeq(enabled_policies, HasPriority)
  IN Bucket(1) \o Bucket(2) \o Bucket(3) \o Bucket(4) \o Bucket(5)
     \o Bucket(999)

\* the loop of evaluate without the early return: every handler is invoked
\* and the first outcome returned
RECURSIVE evaluate_from_through(_, _, _, _, _, _, _)
evaluate_from_through(sorted, i, invoked, r, user_message, t, oracle) ==
  IF i > Len(sorted)
  THEN [result |-> NoResult, invoked |-> invoked]
  ELSE LET result == HandlerEvaluate(sorted[i].policy, sorted[i].idx, r,
                                     user_message, t, oracle[sorted[i].idx + 1])
           rest == evaluate_from_through(sorted, i + 1,
                                         Append(invoked, sorted[i].idx),
                                         r, user_message, t, oracle)
       IN IF result # NoResult /\ result.should_escalate
          THEN [result |-> result, invoked |-> rest.invoked]
          ELSE rest

\* the loop of EscalationEngine.evaluate from position i of the sorted list:
\* the result, and the indexes of the policies whose handler was invoked
RECURSIVE evaluate_from(_, _, _, _, _, _, _)
evaluate_from(sorted, i, invoked, r, user_message, t, oracle) ==
  IF i > Len(sorted)
  THEN [result |-> NoResult, invoked |-> invoked]
  ELSE LET result == HandlerEvaluate(sorted[i].policy, sorted[i].idx, r,
                                     user_message, t, oracle[sorted[i].idx + 1])
       IN IF result # NoResult /\ result.should_escalate
          THEN [result |-> result, invoked |-> Append(invoked, sorted[i].idx)]
          ELSE evaluate_from(sorted, i + 1, Append(invoked, sorted[i].idx),
                            r, user_message, t, oracle)

\* EscalationEngine.evaluate
evaluate(policies, r, user_message, t, oracle) ==
  evaluate_from(get_sorted_policies(policies), 1, <<>>, r, user_message, t,
               oracle)

\* EscalationEngine.evaluate_all
RECURSIVE evaluate_all_from(_, _, _, _, _, _, _, _)
evaluate_all_from(sorted, i, results, invoked, r, user_message, t, oracle) ==
  IF i > Len(sorted)
  THEN [results |-> results, invoked |-> invoked]
  ELSE LET result == HandlerEvaluate(sorted[i].policy, sorted[i].idx, r,
                                     user_message, t, oracle[sorted[i].idx + 1])
       IN evaluate_all_from(sorted, i + 1,
            IF result # NoResult /\ result.should_escalate
            THEN Append(results, result) ELSE results,
            Append(invoked, sorted[i].idx), r, user_message, t, oracle)

\* Mutant of evaluate_all: the sweep stops at the first outcome, as evaluate
\* does.
evaluate_all_first(policies, r, user_message, t, oracle) ==
  LET ev == evaluate(policies, r, user_message, t, oracle)
  IN [results |-> IF ev.result # NoResult THEN <<ev.result>> ELSE <<>>,
      invoked |-> ev.invoked]

evaluate_all(policies, r, user_message, t, oracle) ==
  evaluate_all_from(get_sorted_policies(policies), 1, <<>>, <<>>, r,
                  user_message, t, oracle)

\* has_policies that counts the policies that are not enabled too
has_policies_configured(policies) == Len(policies) > 0

\* EscalationEngine.has_policies
has_policies(policies) == \E i \in DOMAIN policies : policies[i].enabled

\* ------------------------------------------------- agent: field helpers --
\* Optional[FieldConfig]: None
NoField == [name |-> NULL, field_type |-> NULL, required |-> FALSE,
            validation_pattern |-> NULL]

\* the first element of a sequence that is in the set wanted, or NoField
FirstField(fields, wanted) ==
  IF \E i \in DOMAIN fields : fields[i] \in wanted
  THEN fields[CHOOSE i \in DOMAIN fields :
                /\ fields[i] \in wanted
                /\ \A j \in 1..(i - 1) : fields[j] \notin wanted]
  ELSE NoField

\* Mutant of get_next_field_to_collect: the first uncollected field in
\* configuration order, required or not.
get_next_field_to_collect_any(fields, r) ==
  FirstField(fields, {f \in Range(fields) :
                        f.name \notin DOMAIN get_collected_data(r)})

\* ConversationalAgent.get_next_field_to_collect
get_next_field_to_collect(fields, r) ==
  LET collected_fields == DOMAIN get_collected_data(r)
      required_missing == {f \in Range(fields) :
                             f.required /\ f.name \notin collected_fields}
      optional_missing == {f \in Range(fields) :
                             ~f.required /\ f.name \notin collected_fields}
  IN IF FirstField(fields, required_missing) # NoField
     THEN FirstField(fields, required_missing)
     ELSE FirstField(fields, optional_missing)

\* the loop "for f in agent.config.fields: if f.name == name" of
\* extract_field_node and validate_node
FieldByName(fields, name) ==
  FirstField(fields, {f \in Range(fields) : f.name = name})

\* character classes of the validation patterns
LowerLetters ==
  {"a", "b", "c", "d", "e", "f", "g", "h", "i", "j", "k", "l", "m", "n", "o",
   "p", "q", "r", "s", "t", "u", "v", "w", "x", "y", "z"}
UpperLetters ==
  {"A", "B", "C", "D", "E", "F", "G", "H", "I", "J", "K", "L", "M", "N", "O",
   "P", "Q", "R", "S", "T", "U", "V", "W", "X", "Y", "Z"}
Digits == {"0", "1", "2", "3", "4", "5", "6", "7", "8", "9"}
AlphaNum == LowerLetters \cup UpperLetters \cup Digits

AllIn(cs, from, to, class) == \A k \in from..to : cs[k] \in class

\* ConversationalAgent._validate_email:
\* ^[a-zA-Z0-9._%+-]+@[a-zA-Z0-9.-]+\.[a-zA-Z]{2,}$
validate_email(value) ==
  LET cs == Chars[value]
      n == Len(cs)
  IN \E a \in 2..n : \E d \in (a + 2)..(n - 2) :
       /\ cs[a] = "@"
       /\ cs[d] = "."
       /\ AllIn(cs, 1, a - 1, AlphaNum \cup {".", "_", "%", "+", "-"})
       /\ AllIn(cs, a + 1, d - 1, AlphaNum \cup {".", "-"})
       /\ AllIn(cs, d + 1, n, LowerLetters \cup UpperLetters)

\* ConversationalAgent._validate_phone: ^[\d\s\-\(\)\+]+$ and 7 digits or more
validate_phone(value) ==
  LET cs == Chars[value]
  IN /\ Len(cs) >= 1
     /\ AllIn(cs, 1, Len(cs), Digits \cup {" ", "-", "(", ")", "+"})
     /\ Cardinality({k \in DOMAIN cs : cs[k] \in Digits}) >= 7

\* ConversationalAgent._validate_url: ^https?://[^\s]+$
validate_url(value) ==
  LET cs == Chars[value]
      n == Len(cs)
      StartsWith(prefix) ==
        /\ n > Len(prefix)
        /\ \A k \in DOMAIN prefix : cs[k] = prefix[k]
        /\ \A k \in (Len(prefix) + 1)..n : cs[k] # " "
  IN \/ StartsWith(<<"h", "t", "t", "p", ":", "/", "/">>)
     \/ StartsWith(<<"h", "t", "t", "p", "s", ":", "/", "/">>)

\* ConversationalAgent._validate_number: float(value) does not raise
validate_number(value) == value \in DOMAIN ParseFloat

\* ConversationalAgent._match_pattern for the patterns of the model
match_pattern(pattern, value) ==
  LET cs == Chars[value]
  IN CASE pattern = "^[a-z]+$" ->
            Len(cs) >= 1 /\ AllIn(cs, 1, Len(cs), LowerLetters)

\* Mutant of validate_field_value: the sentinel values pass as free text.
validate_field_value_no_sentinels(field, value) ==
  IF value = NULL \/ value = ""
  THEN FALSE
  ELSE IF value \in {"NOT_PROVIDED", "INVALID"}
  THEN field.field_type = "text" /\ field.validation_pattern = NULL
  ELSE IF field.field_type = "email" /\ ~validate_email(value) THEN FALSE
  ELSE IF field.field_type = "phone" /\ ~validate_phone(value) THEN FALSE
  ELSE IF field.field_type = "url" /\ ~validate_url(value) THEN FALSE
  ELSE IF field.field_type = "number" /\ ~validate_number(value) THEN FALSE
  ELSE IF field.validation_pattern # NULL
          /\ ~match_pattern(field.validation_pattern, value)
       THEN FALSE
       ELSE TRUE

\* ConversationalAgent._validate_field_value
validate_field_value(field, value) ==
  IF value = NULL \/ value = "" \/ value \in {"NOT_PROVIDED", "INVALID"}
  THEN FALSE
  ELSE IF field.field_type = "email" /\ ~validate_email(value) THEN FALSE
  ELSE IF field.field_type = "phone" /\ ~validate_phone(value) THEN FALSE
  ELSE IF field.field_type = "url" /\ ~validate_url(value) THEN FALSE
  ELSE IF field.field_type = "number" /\ ~validate_number(value) THEN FALSE
  ELSE IF field.validation_pattern # NULL
          /\ ~match_pattern(field.validation_pattern, value)
       THEN FALSE
       ELSE TRUE

\* ------------------------------------------------ heuristic classifiers --
\* user_message.lower().strip(), as words
LowerWords(user_message) ==
  [i \in DOMAIN Words[user_message] |-> Lower(Words[user_message][i])]

\* the longest prefix of a word made of \w characters ("" when there is none)
WordPrefix(w) ==
  CASE w = "x@y.com" -> "x"
    [] w = "a@b.com" -> "a"
    [] w = "no," -> "no"
    [] OTHER -> w

\* the words ws[i..] start with the phrase
PhraseAt(ws, i, phrase) ==
  /\ i + Len(phrase) - 1 <= Len(ws)
  /\ \A k \in DOMAIN phrase : ws[i + k - 1] = phrase[k]

\* a regular-expression match found by re.search: whether it matched and the
\* text of group 1 (NULL for None)
NoMatch == [matched |-> FALSE, hint |-> NULL]

\* (?:...)?\s*(\w+)? after a cue ending at word j: an optional filler word,
\* then an optional captured word
OptionalTail(ws, j, fillers) ==
  LET k == IF j + 1 <= Len(ws) /\ ws[j + 1] \in fillers THEN j + 2 ELSE j + 1
  IN [matched |-> TRUE,
      hint |-> IF k <= Len(ws) /\ WordPrefix(ws[k]) # ""
               THEN WordPrefix(ws[k]) ELSE NULL]

\* the cue phrases that open CORRECTION_PATTERNS[n]
CorrectionCues(n) ==
  CASE n = 1 ->
         \* (no|nope|actually|sorry|wait),?
         {<<"no">>, <<"no,">>, <<"nope">>, <<"actually">>, <<"sorry">>,
          <<"wait">>}
    [] n = 2 ->
         \* (i meant|i mean|that'?s? wrong|correction:?)
         {<<"i", "meant">>, <<"i", "mean">>, <<"thats", "wrong">>,
          <<"that's", "wrong">>, <<"that", "wrong">>, <<"correction">>,
          <<"correction:">>}
    [] n = 3 ->
         \* (let me correct|please change|update)
         {<<"let", "me", "correct">>, <<"please", "change">>, <<"update">>}
    [] n = 4 ->
         \* (that'?s? not right|wrong)
         {<<"thats", "not", "right">>, <<"that's", "not", "right">>,
          <<"that", "not", "right">>, <<"wrong">>}

\* the rest of CORRECTION_PATTERNS[n] matched after a cue that ends at word j
AfterCue(n, ws, j) ==
  CASE n = 1 ->
         \* \s*(my|the|it'?s?)\s+(\w+)\s+(is|should be|was)
         IF /\ j + 3 <= Len(ws)
            /\ ws[j + 1] \in {"my", "the", "it", "its", "it's"}
            /\ WordPrefix(ws[j + 2]) = ws[j + 2]
            /\ \/ ws[j + 3] \in {"is", "was"}
               \/ PhraseAt(ws, j + 3, <<"should", "be">>)
         THEN [matched |-> TRUE, hint |-> ws[j + 2]]
         ELSE NoMatch
    [] n \in {2, 3} ->
         \* \s+(my|the)?\s*(\w+)?
         IF j + 1 <= Len(ws) THEN OptionalTail(ws, j, {"my", "the"})
         ELSE NoMatch
    [] n = 4 ->
         \* \s*[,.]?\s*(my|the|it'?s?)?\s*(\w+)?
         OptionalTail(ws, j, {"my", "the", "it", "its", "it's"})

\* re.search(CORRECTION_PATTERNS[n], message): the match at the leftmost
\* position where a cue phrase occurs followed by the rest of the pattern
CorrectionPattern(n, ws) ==
  LET cues == CorrectionCues(n)
      Hit(i) == \E c \in cues :
                  PhraseAt(ws, i, c) /\ AfterCue(n, ws, i + Len(c) - 1).matched
      first == CHOOSE i \in DOMAIN ws : Hit(i) /\ \A j \in 1..(i - 1) : ~Hit(j)
      cue == CHOOSE c \in cues :
               PhraseAt(ws, first, c) /\ AfterCue(n, ws, first + Len(c) - 1).matched
  IN IF \E i \in DOMAIN ws : Hit(i)
     THEN AfterCue(n, ws, first + Len(cue) - 1)
     ELSE NoMatch

\* the first of CORRECTION_PATTERNS that matches, or NoMatch
FirstCorrectionMatch(ws) ==
  IF \E n \in 1..4 : CorrectionPattern(n, ws).matched
  THEN CorrectionPattern(
         CHOOSE n \in 1..4 :
           /\ CorrectionPattern(n, ws).matched
           /\ \A m \in 1..(n - 1) : ~CorrectionPattern(m, ws).matched,
         ws)
  ELSE NoMatch

\* the first match of CORRECTION_PATTERNS in each utterance of the model
CorrectionMatchOf ==
  [u \in Utterances |-> FirstCorrectionMatch(LowerWords(u))]

\* any(keyword in user_message for keyword in correction_keywords)
HasCorrectionKeyword(ws) ==
  \E w \in Range(ws) :
    \E kw \in {"no,", "actually", "sorry", "wrong", "correct", "meant"} :
      IsSubstr(kw, w)

\* the texts the capability may answer to the correction prompt, as the text
\* before the first ":" and the text after it
CorrectionParts ==
  [t \in {"CORRECTION:email", "CORRECTION:UNKNOWN", "NOT_CORRECTION",
          "correction: name"} |->
     CASE t = "CORRECTION:email" -> <<"CORRECTION", "email">>
       [] t = "CORRECTION:UNKNOWN" -> <<"CORRECTION", "UNKNOWN">>
       [] t = "NOT_CORRECTION" -> <<"NOT_CORRECTION">>
       [] t = "correction: name" -> <<"correction", "name">>]

CorrectionReplies == DOMAIN CorrectionParts

\* OFF_TOPIC_PATTERNS matched at the start of the message, ignoring case
MatchesOffTopicPattern(ws) ==
  \/ ws \in {<<"hi">>, <<"hello">>, <<"hey">>, <<"whats", "up">>,
             <<"what's", "up">>, <<"how", "are", "you">>,
             <<"good", "morning">>, <<"good", "afternoon">>,
             <<"good", "evening">>}
  \/ /\ Len(ws) >= 2
     /\ ws[1] \in {"what", "who", "why", "how", "when", "where"}
     /\ \E p \in {<<"are", "you">>, <<"is", "this">>, <<"do", "you">>,
                  <<"can", "you">>, <<"did">>} : PhraseAt(ws, 2, p)
  \/ \E p \in {<<"tell", "me", "a", "joke">>, <<"tell", "me", "about">>,
               <<"tell", "me", "more">>, <<"whats", "the", "weather">>,
               <<"what's", "the", "weather">>,
               <<"help", "me", "with", "something", "else">>} :
       PhraseAt(ws, 1, p)
  \/ \E p \in {<<"i", "have", "a", "question">>, <<"can", "i", "ask">>,
               <<"quick", "question">>, <<"unrelated", "but">>} :
       PhraseAt(ws, 1, p)

\* the texts the capability may answer to the off-topic prompt
OffTopicReplies == {"ON_TOPIC", "OFF_TOPIC", "off_topic"}

\* "OFF_TOPIC" in llm_response.strip().upper()
SaysOffTopic(reply) == reply \in {"OFF_TOPIC", "off_topic"}

\* ---------------------------------------------------------- turn state --
\* graph.state.create_initial_state; the conversation it refers to is rec
create_initial_state(user_message) ==
  [user_message |-> user_message,
   next_action |-> "",
   should_escalate |-> FALSE,
   escalation_reason |-> NULL,
   is_correction |-> FALSE,
   correction_field |-> NULL,
   is_off_topic |-> FALSE,
   extracted_value |-> NULL,
   is_valid |-> FALSE,
   current_field |-> NULL,
   response |-> "",
   metadata |-> EmptyDict]

\* d[key] = value on a dict
Put(d, key, value) ==
  [k \in (DOMAIN d) \cup {key} |-> IF k = key THEN value ELSE d[k]]

\* route_after_escalation_check that does not read the escalation flag
route_after_escalation_check_on(g) == "check_correction"

\* edges.route_after_escalation_check
route_after_escalation_check(g) ==
  IF g.should_escalate THEN "escalate" ELSE "check_correction"

\* Mutant of route_after_correction_check: the off-topic check is always next.
route_after_correction_check_always(g) == "check_off_topic"

\* edges.route_after_correction_check
route_after_correction_check(g) ==
  IF g.is_correction THEN "extract_field" ELSE "check_off_topic"

\* Mutant of route_after_off_topic_check: the verdict is looked at first.
route_after_off_topic_check_verdict_first(g, flds, r) ==
  IF g.is_off_topic THEN "prompt_next"
  ELSE IF get_next_field_to_collect(flds, r) = NoField THEN "complete"
  ELSE "extract_field"

\* edges.route_after_off_topic_check
route_after_off_topic_check(g, flds, r) ==
  IF get_next_field_to_collect(flds, r) = NoField THEN "complete"
  ELSE IF g.is_off_topic THEN "prompt_next"
  ELSE "extract_field"

\* route_after_validate that sends an invalid value back to the extraction
route_after_validate_retry(g, flds, r) ==
  IF ~g.is_valid THEN "extract_field"
  ELSE IF get_next_field_to_collect(flds, r) = NoField THEN "complete"
  ELSE "prompt_next"

\* Mutant of route_after_validate: the conversation completes once the
\* required fields are collected.
route_after_validate_required_only(g, flds, r) ==
  IF \A i \in DOMAIN flds :
       flds[i].required => flds[i].name \in DOMAIN get_collected_data(r)
  THEN "complete"
  ELSE "prompt_next"

\* edges.route_after_validate
route_after_validate(g, flds, r) ==
  IF get_next_field_to_collect(flds, r) = NoField THEN "complete"
  ELSE "prompt_next"

\* the fixed reply of escalate_node
HandoffMessage ==
  "I understand you'd like to speak with a human agent. I'm connecting you now. Thank you for your patience."

\* str.strip() on the capability texts of the model
Strip(t) ==
  CASE t = " INVALID " -> "INVALID"
    [] t = " What is your email? " -> "What is your email?"
    [] OTHER -> t

\* the texts the capability may answer to the extraction prompt
ExtractionReplies ==
  {"jane", "x@y.com", "a@b.com", "NOT_PROVIDED", " INVALID ", ""}

\* the texts the capability may answer to a prompt that asks for a reply to
\* the user
PromptReplies == {" What is your email? "}
CompletionReplies == {"Thank you, all done."}

VARIABLES
  fields,     \* agent.config.fields
  policies,   \* agent.config.escalation_policies
  rec,        \* the ConversationState of the session
  stored,     \* whether the store holds the session id of rec
  now,        \* the clock
  pc,         \* where process_message stands: "idle", a node name, or "end"
  gs,         \* the GraphState of the turn in flight
  turns,      \* number of turns started
  visited,    \* the nodes run in this turn, in order
  calls,      \* the capability calls of this turn: [step, site, ok]
  engine,     \* what the last run of the escalation engine did
  rec0,       \* rec when the turn in flight started
  outcome,    \* how the last process_message ended
  parked,     \* the process_message calls suspended at an await
  store,      \* the StateStore: its _states dict and the holder of its _lock
  threads,    \* the store operation each thread is in
  app         \* the AppState of the API: configuration and last answer

\* the variables of the event loop, the store and the API, which one
\* process_message call running alone on one session leaves alone
elsewhere == <<parked, store, threads, app>>

vars == <<fields, policies, rec, stored, now, pc, gs, turns, visited, calls,
          engine, rec0, outcome, parked, store, threads, app>>

\* no call is suspended, the multi-session store and the API are not in use
ElsewhereIdle ==
  /\ parked = <<>>
  /\ store = [states |-> <<>>, lock |-> NULL]
  /\ threads = <<>>
  /\ app = NULL

\* the engine was not run
EngineIdle ==
  [called |-> FALSE, result |-> NoResult, invoked |-> <<>>, would |-> {},
   order |-> <<>>]

\* the capability calls that the handlers invoked by evaluate() issue
EngineCalls(pols, invoked, oracle) ==
  LET Issued(i) == UsesCapability(pols[i + 1])
      callers == SelectSeq(invoked, Issued)
  IN [k \in DOMAIN callers |->
        [step |-> "check_escalation",
         site |-> pols[callers[k] + 1].policy_type,
         ok |-> oracle[callers[k] + 1] # FAIL]]

\* what one run of evaluate() did: its result, the policies whose handler it
\* invoked, the enabled policies whose trigger condition holds for the record,
\* the utterance, the clock and the answers of the capability, and the order
\* the engine gives the enabled policies
EngineRun(pols, r, user_message, t, oracle) ==
  LET ev == evaluate(pols, r, user_message, t, oracle)
      sorted == get_sorted_policies(pols)
  IN [called |-> TRUE,
      result |-> ev.result,
      invoked |-> ev.invoked,
      would |-> {i \in 0..(Len(pols) - 1) :
                   /\ pols[i + 1].enabled
                   /\ HandlerEvaluate(pols[i + 1], i, r, user_message, t,
                                      oracle[i + 1]).should_escalate},
      order |-> [k \in DOMAIN sorted |-> sorted[k].idx]]

\* --------------------------------------------------------------- nodes --
Step(node, next) ==
  /\ pc = node
  /\ pc' = next
  /\ visited' = Append(visited, node)

Call(node, site, reply) == [step |-> node, site |-> site, ok |-> reply # FAIL]

\* nodes.check_escalation_node, then route_after_escalation_check
check_escalation_node ==
  /\ pc = "check_escalation"
  /\ IF ~has_policies(policies)
     THEN /\ gs' = [gs EXCEPT !.should_escalate = FALSE,
                              !.escalation_reason = NULL]
          /\ engine' = EngineIdle
          /\ calls' = calls
     ELSE \E oracle \in Oracles(policies) :
            /\ engine' = EngineRun(policies, rec, gs.user_message, now, oracle)
            /\ calls' = calls \o EngineCalls(policies, engine'.invoked, oracle)
            /\ gs' = IF engine'.result # NoResult
                        /\ engine'.result.should_escalate
                     THEN [gs EXCEPT
                             !.should_escalate = TRUE,
                             !.escalation_reason = engine'.result.reason,
                             !.metadata =
                               Put(Put(@, "escalation_policy_id",
                                       engine'.result.policy_id),
                                   "escalation_confidence",
                                   engine'.result.confidence)]
                     ELSE [gs EXCEPT !.should_escalate = FALSE,
                                     !.escalation_reason = NULL]
  /\ Step("check_escalation", route_after_escalation_check(gs'))
  /\ UNCHANGED <<elsewhere, fields, policies, rec, stored, now, turns, rec0, outcome>>

\* nodes.check_correction_node, then route_after_correction_check
check_correction_node ==
  /\ pc = "check_correction"
  /\ LET ws == LowerWords(gs.user_message)
         collected_fields == DOMAIN get_collected_data(rec)
         m == CorrectionMatchOf[gs.user_message]
         candidates == IF m.hint = NULL THEN {}
                       ELSE {f \in collected_fields :
                               IsSubstr(Lower(m.hint), Lower(f))}
         NotCorrection == [gs EXCEPT !.is_correction = FALSE,
                                     !.correction_field = NULL]
     IN IF m.matched /\ collected_fields # {}
        THEN /\ calls' = calls
             /\ IF candidates # {}
                THEN \E field_name \in candidates :
                       gs' = [gs EXCEPT !.is_correction = TRUE,
                                        !.correction_field = field_name]
                ELSE gs' = [gs EXCEPT !.is_correction = TRUE,
                                      !.correction_field = NULL]
        ELSE IF HasCorrectionKeyword(ws) /\ collected_fields # {}
        THEN \E reply \in CorrectionReplies \cup {FAIL} :
               /\ calls' = Append(calls, Call("check_correction", "correction", reply))
               /\ IF reply # FAIL
                     /\ Len(CorrectionParts[reply]) = 2
                     /\ Upper(CorrectionParts[reply][1]) = "CORRECTION"
                  THEN LET field_part == Upper(CorrectionParts[reply][2])
                       IN gs' = [gs EXCEPT
                                   !.is_correction = TRUE,
                                   !.correction_field =
                                     IF field_part # "UNKNOWN" THEN field_part
                                     ELSE NULL]
                  ELSE gs' = NotCorrection
        ELSE /\ calls' = calls
             /\ gs' = NotCorrection
  /\ Step("check_correction", route_after_correction_check(gs'))
  /\ UNCHANGED <<elsewhere, fields, policies, rec, stored, now, turns, engine, rec0,
                 outcome>>

\* Mutant of check_off_topic_node: a failed classification counts as
\* off-topic.
check_off_topic_node_fail_closed ==
  /\ pc = "check_off_topic"
  /\ LET ws == LowerWords(gs.user_message)
         next_field == get_next_field_to_collect(fields, rec)
     IN IF MatchesOffTopicPattern(ws)
        THEN /\ gs' = [gs EXCEPT !.is_off_topic = TRUE]
             /\ calls' = calls
        ELSE IF next_field # NoField
        THEN \E reply \in OffTopicReplies \cup {FAIL} :
               /\ calls' = Append(calls, Call("check_off_topic", "off_topic", reply))
               /\ gs' = [gs EXCEPT !.is_off_topic =
                           IF reply # FAIL THEN SaysOffTopic(reply) ELSE TRUE]
        ELSE /\ gs' = [gs EXCEPT !.is_off_topic = FALSE]
             /\ calls' = calls
  /\ Step("check_off_topic", route_after_off_topic_check(gs', fields, rec))
  /\ UNCHANGED <<elsewhere, fields, policies, rec, stored, now, turns, engine, rec0,
                 outcome>>

\* nodes.check_off_topic_node, then route_after_off_topic_check
check_off_topic_node ==
  /\ pc = "check_off_topic"
  /\ LET ws == LowerWords(gs.user_message)
         next_field == get_next_field_to_collect(fields, rec)
     IN IF MatchesOffTopicPattern(ws)
        THEN /\ gs' = [gs EXCEPT !.is_off_topic = TRUE]
             /\ calls' = calls
        ELSE IF next_field # NoField
        THEN \E reply \in OffTopicReplies \cup {FAIL} :
               /\ calls' = Append(calls, Call("check_off_topic", "off_topic", reply))
               /\ gs' = [gs EXCEPT !.is_off_topic =
                           IF reply # FAIL THEN SaysOffTopic(reply) ELSE FALSE]
        ELSE /\ gs' = [gs EXCEPT !.is_off_topic = FALSE]
             /\ calls' = calls
  /\ Step("check_off_topic", route_after_off_topic_check(gs', fields, rec))
  /\ UNCHANGED <<elsewhere, fields, policies, rec, stored, now, turns, engine, rec0,
                 outcome>>

\* Mutant of ExtractionTarget: a correction without a target goes to the first
\* configured field.
ExtractionTarget_first(g, flds, r) ==
  IF g.is_correction /\ g.correction_field \notin {NULL, ""}
  THEN IF FieldByName(flds, g.correction_field) # NoField
       THEN FieldByName(flds, g.correction_field)
       ELSE get_next_field_to_collect(flds, r)
  ELSE IF g.is_correction THEN flds[1]
  ELSE get_next_field_to_collect(flds, r)

\* the field extract_field_node targets
ExtractionTarget(g, flds, r) ==
  IF g.is_correction /\ g.correction_field \notin {NULL, ""}
  THEN IF FieldByName(flds, g.correction_field) # NoField
       THEN FieldByName(flds, g.correction_field)
       ELSE get_next_field_to_collect(flds, r)
  ELSE get_next_field_to_collect(flds, r)

\* nodes.extract_field_node, then the edge to validate
extract_field_node ==
  /\ pc = "extract_field"
  /\ LET field == ExtractionTarget(gs, fields, rec)
     IN IF field = NoField
        THEN /\ gs' = [gs EXCEPT !.extracted_value = NULL,
                                 !.current_field = NULL]
             /\ calls' = calls
        ELSE \E reply \in ExtractionReplies \cup {FAIL} :
               /\ calls' = Append(calls, Call("extract_field", "extraction", reply))
               /\ gs' = [gs EXCEPT
                           !.current_field = field.name,
                           !.extracted_value =
                             IF reply = FAIL
                                \/ Strip(reply) \in {"NOT_PROVIDED", "INVALID"}
                             THEN NULL ELSE Strip(reply)]
  /\ Step("extract_field", "validate")
  /\ UNCHANGED <<elsewhere, fields, policies, rec, stored, now, turns, engine, rec0,
                 outcome>>

\* Mutant of validate_node: the extracted value is written to the record
\* whether it validated or not.
validate_node_records_invalid ==
  /\ pc = "validate"
  /\ LET field == FieldByName(fields, gs.current_field)
     IN IF gs.extracted_value \in {NULL, ""} \/ gs.current_field \in {NULL, ""}
        THEN gs' = [gs EXCEPT !.is_valid = FALSE] /\ rec' = rec
        ELSE IF field = NoField
        THEN gs' = [gs EXCEPT !.is_valid = FALSE] /\ rec' = rec
        ELSE LET is_valid == validate_field_value(field, gs.extracted_value)
             IN /\ gs' = [gs EXCEPT !.is_valid = is_valid]
                /\ rec' = update_field_value(rec, gs.current_field,
                                             gs.extracted_value, is_valid, now)
  /\ Step("validate", route_after_validate(gs', fields, rec'))
  /\ UNCHANGED <<elsewhere, fields, policies, stored, now, turns, calls, engine, rec0,
                 outcome>>

\* Mutant of validate_node: the extracted value is written without being
\* validated.
validate_node_unchecked ==
  /\ pc = "validate"
  /\ LET field == FieldByName(fields, gs.current_field)
     IN IF gs.extracted_value \in {NULL, ""} \/ gs.current_field \in {NULL, ""}
        THEN gs' = [gs EXCEPT !.is_valid = FALSE] /\ rec' = rec
        ELSE IF field = NoField
        THEN gs' = [gs EXCEPT !.is_valid = FALSE] /\ rec' = rec
        ELSE /\ gs' = [gs EXCEPT !.is_valid = TRUE]
             /\ rec' = update_field_value(rec, gs.current_field,
                                          gs.extracted_value, TRUE, now)
  /\ Step("validate", route_after_validate(gs', fields, rec'))
  /\ UNCHANGED <<elsewhere, fields, policies, stored, now, turns, calls, engine, rec0,
                 outcome>>

\* nodes.validate_node, then route_after_validate
validate_node ==
  /\ pc = "validate"
  /\ LET field == FieldByName(fields, gs.current_field)
     IN IF gs.extracted_value \in {NULL, ""} \/ gs.current_field \in {NULL, ""}
        THEN gs' = [gs EXCEPT !.is_valid = FALSE] /\ rec' = rec
        ELSE IF field = NoField
        THEN gs' = [gs EXCEPT !.is_valid = FALSE] /\ rec' = rec
        ELSE LET is_valid == validate_field_value(field, gs.extracted_value)
             IN /\ gs' = [gs EXCEPT !.is_valid = is_valid]
                /\ rec' = IF is_valid
                          THEN update_field_value(rec, gs.current_field,
                                                  gs.extracted_value, TRUE, now)
                          ELSE rec
  /\ Step("validate", route_after_validate(gs', fields, rec'))
  /\ UNCHANGED <<elsewhere, fields, policies, stored, now, turns, calls, engine, rec0,
                 outcome>>

\* nodes.prompt_next_node, then the edge to END
prompt_next_node ==
  /\ pc = "prompt_next"
  /\ LET next_field == get_next_field_to_collect(fields, rec)
         Said(reply) == [gs EXCEPT !.response = Strip(reply)]
     IN IF next_field = NoField
        THEN /\ gs' = [gs EXCEPT !.response =
                         "Thank you for providing all the information."]
             /\ calls' = calls
        ELSE IF gs.is_off_topic
        THEN \E reply \in PromptReplies \cup {FAIL} :
               /\ calls' = Append(calls, Call("prompt_next", "redirect", reply))
               /\ gs' = IF reply # FAIL THEN Said(reply)
                        ELSE [gs EXCEPT !.response =
                                "I appreciate that! Could you please provide your "
                                \o next_field.name \o "?"]
        ELSE \E first \in PromptReplies \cup {FAIL, NULL} :
             \E second \in PromptReplies \cup {FAIL, NULL} :
               \* first: the answer to the invalid-input prompt, NULL when it
               \* is not asked; second: the answer to the field prompt
               /\ (first # NULL) <=>
                    (gs.extracted_value = NULL /\ gs.user_message # "")
               /\ (second # NULL) <=> (first \in {FAIL, NULL})
               /\ calls' = calls
                    \o (IF first # NULL
                        THEN <<Call("prompt_next", "invalid_input", first)>>
                        ELSE <<>>)
                    \o (IF second # NULL
                        THEN <<Call("prompt_next", "field_prompt", second)>>
                        ELSE <<>>)
               /\ gs' = IF second = NULL THEN Said(first)
                        ELSE IF second # FAIL THEN Said(second)
                        ELSE [gs EXCEPT
                                !.response = "Could you please provide your "
                                             \o next_field.name \o "?",
                                !.metadata = Put(@, "prompt_error",
                                                 "Error invoking LLM")]
  /\ Step("prompt_next", "end")
  /\ UNCHANGED <<elsewhere, fields, policies, rec, stored, now, turns, engine, rec0,
                 outcome>>

\* nodes.escalate_node, then the edge to END
escalate_node ==
  /\ pc = "escalate"
  /\ LET policy_id == Get(gs.metadata, "escalation_policy_id", NoPolicyId)
         reason == IF gs.escalation_reason \notin {NULL, ""}
                   THEN gs.escalation_reason
                   ELSE "User requested human agent"
     IN /\ rec' = mark_escalated(rec, reason, policy_id, now)
        /\ gs' = [gs EXCEPT !.response = HandoffMessage]
  /\ Step("escalate", "end")
  /\ UNCHANGED <<elsewhere, fields, policies, stored, now, turns, calls, engine, rec0,
                 outcome>>

\* Mutant of complete_node: the closing reply is produced and the record's
\* status left as it is.
complete_node_reply_only ==
  /\ pc = "complete"
  /\ \E reply \in CompletionReplies \cup {FAIL} :
       /\ calls' = Append(calls, Call("complete", "completion", reply))
       /\ gs' = [gs EXCEPT !.response =
                   IF reply # FAIL THEN Strip(reply)
                   ELSE "Thank you! We have all the information we need."]
  /\ rec' = rec
  /\ Step("complete", "end")
  /\ UNCHANGED <<elsewhere, fields, policies, stored, now, turns, engine, rec0, outcome>>

\* nodes.complete_node, then the edge to END
complete_node ==
  /\ pc = "complete"
  /\ \E reply \in CompletionReplies \cup {FAIL} :
       /\ calls' = Append(calls, Call("complete", "completion", reply))
       /\ gs' = [gs EXCEPT !.response =
                   IF reply # FAIL THEN Strip(reply)
                   ELSE "Thank you! We have all the information we need."]
  /\ rec' = mark_completed(rec, now)
  /\ Step("complete", "end")
  /\ UNCHANGED <<elsewhere, fields, policies, stored, now, turns, engine, rec0, outcome>>

\* ------------------------------------------------------ process_message --
\* StateStore.update on the record at time t: raises ValueError ("error")
\* when the session id is not stored
StoreUpdate(r, is_stored, t) ==
  IF ~is_stored THEN [raised |-> TRUE, state |-> r]
  ELSE [raised |-> FALSE, state |-> r]

\* Mutant of process_message_except: the exception is passed on as it is.
process_message_reraise(exception_type) == exception_type

\* the except clauses of process_message: LLMProviderError and every other
\* Exception are re-raised as AgentError
process_message_except(exception_type) ==
  IF exception_type = "LLMProviderError" THEN "AgentError" ELSE "AgentError"

\* process_message up to the start of the graph: the user message is added
\* and the initial graph state created
StartTurn(user_message) ==
  /\ pc = "idle"
  /\ turns < MaxTurns
  /\ rec' = add_message(rec, "user", user_message, now)
  /\ gs' = create_initial_state(user_message)
  /\ pc' = "check_escalation"
  /\ turns' = turns + 1
  /\ visited' = <<>>
  /\ calls' = <<>>
  /\ engine' = EngineIdle
  /\ rec0' = rec
  /\ outcome' = "running"
  /\ UNCHANGED <<elsewhere, fields, policies, stored, now>>

\* routes.send_message: 404 when store.get(session_id) is None, otherwise
\* agent.process_message(conversation_state, request.content), whatever the
\* status of the record
send_message(content) ==
  /\ stored
  /\ StartTurn(content)

\* websocket._handle_user_message: agent.process_message on the record the
\* connection holds, whatever its status and whether or not the store still
\* has it
handle_user_message(content) == StartTurn(content)

\* process_message after the graph: the reply is added, the store updated,
\* and the reply returned, or AgentError raised when the update fails; the
\* graph state of the turn is dropped
FinishTurn ==
  /\ pc = "end"
  /\ LET replied == add_message(rec, "agent", gs.response, now)
         upd == StoreUpdate(replied, stored, now)
     IN /\ rec' = upd.state
        /\ rec0' = upd.state
        /\ outcome' = IF upd.raised THEN process_message_except("ValueError")
                       ELSE "returned"
  /\ pc' = "idle"
  /\ gs' = create_initial_state("")
  /\ visited' = <<>>
  /\ calls' = <<>>
  /\ engine' = EngineIdle
  /\ UNCHANGED <<elsewhere, fields, policies, stored, now, turns>>

\* one step of the turn in flight
TurnStep ==
  \/ check_escalation_node
  \/ check_correction_node
  \/ check_off_topic_node
  \/ extract_field_node
  \/ validate_node
  \/ prompt_next_node
  \/ escalate_node
  \/ complete_node
  \/ FinishTurn

\* --------------------------------------------------------- environment --
\* routes.delete_conversation: store.delete of the session
DeleteConversation ==
  /\ stored
  /\ stored' = FALSE
  /\ UNCHANGED <<elsewhere, fields, policies, rec, now, pc, gs, turns, visited, calls,
                 engine, rec0, outcome>>

\* the clock advances
Tick ==
  /\ now < MaxTime
  /\ now' = now + 1
  /\ UNCHANGED <<elsewhere, fields, policies, rec, stored, pc, gs, turns, visited, calls,
                 engine, rec0, outcome>>

\* start_conversation() under one configuration
Init ==
  /\ \E config \in Configs :
       /\ fields = config.fields
       /\ policies = config.escalation_policies
  /\ now = 0
  /\ rec = NewRecord(0)
  /\ stored = TRUE
  /\ pc = "idle"
  /\ gs = create_initial_state("")
  /\ turns = 0
  /\ visited = <<>>
  /\ calls = <<>>
  /\ engine = EngineIdle
  /\ rec0 = NewRecord(0)
  /\ outcome = "none"
  /\ ElsewhereIdle

Next ==
  \/ \E content \in Utterances : send_message(content)
  \/ \E content \in Utterances : handle_user_message(content)
  \/ TurnStep
  \/ DeleteConversation
  \/ Tick

Spec == Init /\ [][Next]_vars

\* --------------------------------------------- conversations that go on --
\* The same conversations under the scheduling of the program: a turn that
\* process_message started runs its graph to the end (the nodes are awaited
\* one after the other and none of them blocks), and the connection's
\* receive loop hands every message of the user to process_message.
SpecAnswered ==
  /\ Init
  /\ [][Next]_vars
  /\ WF_vars(TurnStep)
  /\ WF_vars(\E content \in Utterances : handle_user_message(content))

\* ------------------------------------------- the engine called directly --
\* records that conversations reach, to call the engine on: a new one, one
\* with the email collected, one with both fields collected and completed
EngineRecords ==
  { NewRecord(0),
    update_field_value(NewRecord(0), "email", "x@y.com", TRUE, 0),
    mark_completed(
      update_field_value(
        update_field_value(NewRecord(0), "name", "jane", TRUE, 0),
        "email", "x@y.com", TRUE, 0),
      0) }

\* EscalationEngine(config).evaluate(state, user_message) called on its own
EngineEvaluate ==
  /\ pc = "engine"
  /\ \E oracle \in Oracles(policies) :
       /\ engine' = EngineRun(policies, rec, gs.user_message, now, oracle)
       /\ calls' = EngineCalls(policies, engine'.invoked, oracle)
  /\ pc' = "engine_done"
  /\ UNCHANGED <<elsewhere, fields, policies, rec, stored, now, gs, turns, visited, rec0,
                 outcome>>

InitEngine ==
  /\ fields = <<FieldName, FieldEmail>>
  /\ policies \in PolicyListsUpTo(MaxPolicies)
  /\ now \in 0..MaxTime
  /\ rec \in EngineRecords
  /\ stored = TRUE
  /\ pc = "engine"
  /\ gs \in {create_initial_state(u) : u \in Utterances}
  /\ turns = 0
  /\ visited = <<>>
  /\ calls = <<>>
  /\ engine = EngineIdle
  /\ rec0 = rec
  /\ outcome = "none"
  /\ ElsewhereIdle

\* EscalationEngine(config).evaluate_all(state, user_message) called on its
\* own, kept next to what evaluate() gives for the same record, utterance,
\* clock and capability answers, and to what has_policies() answers
EngineEvaluateAll ==
  /\ pc = "engine"
  /\ \E oracle \in Oracles(policies) :
       LET swept == evaluate_all(policies, rec, gs.user_message, now, oracle)
           asked == EngineCalls(policies, swept.invoked, oracle)
       IN /\ engine' = EngineRun(policies, rec, gs.user_message, now, oracle)
                        @@ [all |-> swept.results,
                            all_invoked |-> swept.invoked,
                            oracle |-> oracle,
                            has_policies |-> has_policies(policies)]
          /\ calls' = [k \in DOMAIN asked |->
                         [asked[k] EXCEPT !.step = "evaluate_all"]]
  /\ pc' = "engine_all_done"
  /\ UNCHANGED <<elsewhere, fields, policies, rec, stored, now, gs, turns,
                 visited, rec0, outcome>>

NextEngine ==
  \/ EngineEvaluate
  \/ EngineEvaluateAll

SpecEngine == InitEngine /\ [][NextEngine]_vars

\* ------------------------------- the record operations called directly --
\* ConversationState.mark_failed called between two turns
MarkFailed ==
  /\ pc = "idle"
  /\ rec.status # "failed"
  /\ rec' = mark_failed(rec, "turn processing failed", now)
  /\ UNCHANGED <<elsewhere, fields, policies, stored, now, pc, gs, turns, visited, calls,
                 engine, rec0, outcome>>

\* ConversationState.mark_escalated called between two turns
MarkEscalated ==
  /\ pc = "idle"
  /\ rec.status # "escalated"
  /\ rec' = mark_escalated(rec, "operator took over", NoPolicyId, now)
  /\ UNCHANGED <<elsewhere, fields, policies, stored, now, pc, gs, turns, visited, calls,
                 engine, rec0, outcome>>

\* ConversationState.mark_completed called between two turns
MarkCompleted ==
  /\ pc = "idle"
  /\ rec.status # "completed"
  /\ rec' = mark_completed(rec, now)
  /\ UNCHANGED <<elsewhere, fields, policies, stored, now, pc, gs, turns, visited, calls,
                 engine, rec0, outcome>>

\* StateStore.create(rec): stores the record unless its session id is stored
StoreCreate ==
  /\ ~stored
  /\ stored' = TRUE
  /\ UNCHANGED <<elsewhere, fields, policies, rec, now, pc, gs, turns, visited, calls,
                 engine, rec0, outcome>>

\* StateStore.update(rec) called by the owner of the record
StoreUpdateDirect ==
  /\ stored
  /\ pc = "idle"
  /\ rec' = StoreUpdate(rec, stored, now).state
  /\ outcome' = "updated"
  /\ UNCHANGED <<elsewhere, fields, policies, stored, now, pc, gs, turns, visited, calls,
                 engine, rec0>>

NextOps ==
  \/ Next
  \/ MarkFailed
  \/ MarkEscalated
  \/ MarkCompleted
  \/ StoreCreate
  \/ StoreUpdateDirect

\* one agent with a keyword policy, its conversation just started
InitOps ==
  /\ fields = <<FieldName, FieldEmail>>
  /\ policies = <<PolKeyword>>
  /\ now = 0
  /\ rec = NewRecord(0)
  /\ stored = TRUE
  /\ pc = "idle"
  /\ gs = create_initial_state("")
  /\ turns = 0
  /\ visited = <<>>
  /\ calls = <<>>
  /\ engine = EngineIdle
  /\ rec0 = NewRecord(0)
  /\ outcome = "none"
  /\ ElsewhereIdle

SpecOps == InitOps /\ [][NextOps]_vars

\* ---------------------------------------------------------------- claims --
Terminals == {"escalate", "prompt_next", "complete"}

\* the history is the greeting, then user and agent messages in turn
Alternates(messages) ==
  /\ Len(messages) >= 1
  /\ messages[1] = [role |-> "agent", content |-> Greeting]
  /\ \A i \in DOMAIN messages :
       messages[i].role = IF i % 2 = 1 THEN "agent" ELSE "user"

\* C1: every turn of process_message appends exactly two messages to the
\* record it found, the user message with the utterance and then the agent
\* message with the reply of the turn, whichever terminal node ended the turn;
\* so the history is always the greeting followed by user and agent messages
\* in turn, complete (odd length) between turns.
C1_TurnAppendsTwoMessages ==
  /\ [](Alternates(rec.messages) /\ (pc = "idle" => Len(rec.messages) % 2 = 1))
  /\ [][pc = "end" /\ pc' = "idle" =>
          /\ Last(visited) \in Terminals
          /\ rec'.messages =
               rec0.messages \o <<[role |-> "user", content |-> gs.user_message],
                                  [role |-> "agent", content |-> gs.response]>>]_vars

\* two turns done, the second ended by the escalate node, five messages
C1_Witness ==
  /\ pc = "idle"
  /\ outcome = "returned"
  /\ rec.status = "escalated"
  /\ Len(rec.messages) = 5
  /\ rec.messages[4].content = "talk to a Human"
  /\ rec.messages[5].content = HandoffMessage

\* the record was active when the turn in flight (or about to start) started
ActiveAtTurnStart ==
  \/ pc = "idle" /\ rec.status = "active"
  \/ pc # "idle" /\ rec0.status = "active"

\* C2: in a turn on a record that is active when the turn starts, every
\* change of the status is a change from active, made by the escalate node to
\* escalated or by the complete node to completed (so there is at most one);
\* a turn that ends in the prompt_next node leaves the status active.
C2_StatusChangesOnceInTurn ==
  /\ [][ActiveAtTurnStart /\ rec'.status # rec.status =>
          /\ rec.status = "active"
          /\ \/ pc = "escalate" /\ rec'.status = "escalated"
             \/ pc = "complete" /\ rec'.status = "completed"]_vars
  /\ [](pc = "end" /\ rec0.status = "active" /\ Last(visited) = "prompt_next"
          => rec.status = "active")

\* a turn on an active record that the complete node ended
C2_Witness ==
  /\ pc = "end"
  /\ rec0.status = "active"
  /\ Last(visited) = "complete"
  /\ rec.status = "completed"

\* C3: no operation on the record (a step of a turn, mark_escalated,
\* mark_completed, mark_failed, a store create or update) takes its status
\* from completed, escalated or failed back to active.
C3_TerminalNeverActiveAgain ==
  [][rec.status \in {"completed", "escalated", "failed"} =>
       rec'.status # "active"]_vars

\* a record marked failed between two turns, then completed by the next turn
C3_Witness ==
  /\ pc = "end"
  /\ rec0.status = "failed"
  /\ rec.status = "completed"

\* C4: a turn writes at most one entry of the field map, once, and it is the
\* entry of the field the extraction targeted (which a correction may make a
\* field that is already valid); every other entry is the one the record had
\* when the turn started.
C4_OneFieldEntryPerTurn ==
  LET before == rec0.collected_fields
      after == rec.collected_fields
  IN /\ DOMAIN before \subseteq DOMAIN after
     /\ \A n \in DOMAIN after :
          \/ n \in DOMAIN before /\ after[n] = before[n]
          \/ /\ "validate" \in Range(visited)
             /\ n = gs.current_field
             /\ n = ExtractionTarget(gs, fields, rec0).name
             /\ after[n].attempts =
                  (IF n \in DOMAIN before THEN before[n].attempts ELSE 0) + 1

\* a correction turn that overwrote the valid email, the name left as it was
C4_Witness ==
  /\ pc = "end"
  /\ gs.is_correction
  /\ DOMAIN rec0.collected_fields = {"email"}
  /\ rec0.collected_fields["email"].is_valid
  /\ rec.collected_fields["email"].value # rec0.collected_fields["email"].value
  /\ rec.collected_fields["email"].attempts = 2

\* the edges of create_conversation_graph, with the entry from and the return
\* to process_message
Edges ==
  { <<"idle", "check_escalation">>,
    <<"check_escalation", "escalate">>,
    <<"check_escalation", "check_correction">>,
    <<"check_correction", "extract_field">>,
    <<"check_correction", "check_off_topic">>,
    <<"check_off_topic", "extract_field">>,
    <<"check_off_topic", "prompt_next">>,
    <<"check_off_topic", "complete">>,
    <<"extract_field", "validate">>,
    <<"validate", "prompt_next">>,
    <<"validate", "complete">>,
    <<"escalate", "end">>,
    <<"prompt_next", "end">>,
    <<"complete", "end">>,
    <<"end", "idle">> }

\* C5: a turn starts at check_escalation, runs each node at most once, moves
\* only along the edges of the graph, and is never stuck before it is back in
\* process_message (so it ends, the graph having no cycle); at END it has run
\* exactly one of escalate, prompt_next and complete, as its last node.
C5_TurnFollowsGraph ==
  /\ [][pc' # pc => <<pc, pc'>> \in Edges]_vars
  /\ [](/\ \A i, j \in DOMAIN visited : visited[i] = visited[j] => i = j
        /\ visited # <<>> => visited[1] = "check_escalation"
        /\ pc \notin Range(visited)
        /\ \A i \in DOMAIN visited :
             visited[i] \in Terminals <=> (pc = "end" /\ i = Len(visited))
        /\ pc = "end" => visited # <<>>
        /\ pc # "idle" => ENABLED TurnStep)

\* a turn at END that went through correction, extraction and validation
C5_Witness ==
  /\ pc = "end"
  /\ visited = <<"check_escalation", "check_correction", "extract_field",
                 "validate", "prompt_next">>

\* the node that check_escalation routed the turn in flight to
RoutedTo == IF Len(visited) = 1 THEN pc ELSE visited[2]

\* C6: check_escalation routes the turn to escalate exactly when the engine
\* has an enabled policy and evaluate() returned an outcome; with no enabled
\* policy evaluate() is not called (no handler invoked, no capability call)
\* and the turn goes on to check_correction.
C6_EscalateIffOutcome ==
  visited # <<>> =>
    LET some_enabled == \E i \in DOMAIN policies : policies[i].enabled
    IN /\ RoutedTo \in {"escalate", "check_correction"}
       /\ RoutedTo = "escalate" <=>
            (some_enabled /\ engine.called /\ engine.result # NoResult)
       /\ engine.called <=> some_enabled
       /\ ~some_enabled =>
            /\ engine.invoked = <<>>
            /\ \A k \in DOMAIN calls : calls[k].step # "check_escalation"
            /\ RoutedTo = "check_correction"

\* the only policy is a disabled keyword policy, the utterance holds its
\* keyword, and the turn went on to check_correction
C6_Witness ==
  /\ policies = <<PolKeywordOff>>
  /\ gs.user_message = "talk to a Human"
  /\ visited = <<"check_escalation">>
  /\ pc = "check_correction"
  /\ ~engine.called

\* the documented rank of each policy type
Rank(policy_type) ==
  CASE policy_type = "keyword" -> 1
    [] policy_type = "timeout" -> 2
    [] policy_type = "sentiment" -> 3
    [] policy_type = "llm_intent" -> 4
    [] policy_type = "completion" -> 5

\* policy i comes before policy j in the evaluation order: by rank, then by
\* position in the configuration
Before(i, j) ==
  \/ Rank(policies[i + 1].policy_type) < Rank(policies[j + 1].policy_type)
  \/ /\ Rank(policies[i + 1].policy_type) = Rank(policies[j + 1].policy_type)
     /\ i < j

\* the outcome is the one the handler of policy i builds
OutcomeOf(result, i) ==
  /\ result.should_escalate
  /\ result.policy_id = PolicyId(i, policies[i + 1].policy_type)
  /\ result.policy_type = policies[i + 1].policy_type
  /\ result.reason = policies[i + 1].reason

\* C7: evaluate() returns an outcome only when an enabled policy triggers (and
\* then it does), and the outcome is that of the triggering policy that comes
\* first by rank and then by position, however the policies are configured.
C7_OutcomeOfFirstTriggering ==
  engine.called =>
    /\ engine.result # NoResult <=> engine.would # {}
    /\ engine.result # NoResult =>
         \E i \in engine.would :
           /\ OutcomeOf(engine.result, i)
           /\ \A j \in engine.would \ {i} : Before(i, j)

\* a completion policy configured before a keyword policy, both triggering:
\* the outcome is the keyword policy's
C7_Witness ==
  /\ pc = "engine_done"
  /\ policies = <<PolCompletion, PolKeyword>>
  /\ engine.would = {0, 1}
  /\ engine.result.policy_id = PolicyId(1, "keyword")

\* C8: evaluate() invokes the handlers of the enabled policies in the order of
\* rank and then position, and stops at the first that triggers: no handler
\* after it is invoked, so a keyword or timeout policy that triggers keeps the
\* capability from being called for a sentiment or llm_intent policy.
C8_StopsAtFirstTrigger ==
  engine.called =>
    LET order == engine.order
        invoked == engine.invoked
    IN /\ Range(order) = {i \in 0..(Len(policies) - 1) : policies[i + 1].enabled}
       /\ \A a, b \in DOMAIN order : a < b => Before(order[a], order[b])
       /\ Len(invoked) <= Len(order)
       /\ \A k \in DOMAIN invoked : invoked[k] = order[k]
       /\ \A k \in DOMAIN invoked : invoked[k] \in engine.would <=>
                                      (k = Len(invoked) /\ engine.result # NoResult)
       /\ engine.result = NoResult => invoked = order
       /\ (\E i \in engine.would :
             policies[i + 1].policy_type \in {"keyword", "timeout"})
          => \A k \in DOMAIN calls : calls[k].step # "check_escalation"

\* a sentiment policy configured before a keyword policy that triggers: only
\* the keyword handler is invoked and the capability is not called
C8_Witness ==
  /\ pc = "engine_done"
  /\ policies = <<PolSentiment, PolKeyword>>
  /\ engine.order = <<1, 0>>
  /\ engine.invoked = <<1>>
  /\ engine.would = {0, 1}
  /\ calls = <<>>

\* C9: when a turn has ended in the escalate node the record is escalated,
\* its escalation flag is set, its escalation reason and policy id are the
\* configured reason and the id of the policy that triggered (the first, by
\* rank and position, of those that trigger), and the reply is the fixed
\* handoff message.
C9_EscalateRecordsPolicy ==
  pc = "end" /\ Last(visited) = "escalate" =>
    /\ rec.status = "escalated"
    /\ rec.escalation_triggered
    /\ gs.response = HandoffMessage
    /\ \E i \in engine.would :
         /\ \A j \in engine.would \ {i} : Before(i, j)
         /\ rec.escalation_reason = policies[i + 1].reason
         /\ rec.escalation_policy_id = PolicyId(i, policies[i + 1].policy_type)

\* the keyword policy, configured third, escalated the turn
C9_Witness ==
  /\ pc = "end"
  /\ Last(visited) = "escalate"
  /\ policies = <<PolCompletion, PolSentiment, PolKeyword>>
  /\ rec.escalation_policy_id = PolicyId(2, "keyword")
  /\ rec.escalation_reason = "wants human"

\* the nodes that collect fields
CollectionNodes ==
  {"check_correction", "check_off_topic", "extract_field", "validate"}

\* C10: once check_escalation has found an outcome, the turn runs none of the
\* nodes that collect fields (correction check, off-topic check, extraction,
\* validation) and the field map stays as it was when the turn started.
C10_EscalationSkipsCollection ==
  visited # <<>> /\ engine.result # NoResult =>
    /\ pc \in {"escalate", "end"}
    /\ Range(visited) \subseteq {"check_escalation", "escalate"}
    /\ rec.collected_fields = rec0.collected_fields

\* a turn whose utterance both corrects the collected email and triggers the
\* sentiment policy: escalated, the email as it was
C10_Witness ==
  /\ pc = "end"
  /\ gs.user_message = "no my email is x@y.com"
  /\ engine.result # NoResult
  /\ visited = <<"check_escalation", "escalate">>
  /\ "email" \in DOMAIN rec.collected_fields

\* ---------------------------------------------------------------------------
\* The node that follows check_correction in the current turn.
AfterCorrectionCheck == IF Len(visited) = 2 THEN pc ELSE visited[3]

\* C11: when check_correction classifies the utterance as a correction the
\* turn goes straight to extract_field and the off-topic detector is not run
\* in that turn (the node is not visited and no off-topic capability call is
\* made); when it does not, the turn goes to check_off_topic.
C11_CorrectionSkipsOffTopic ==
  Len(visited) >= 2 /\ visited[2] = "check_correction" =>
    IF gs.is_correction
    THEN /\ AfterCorrectionCheck = "extract_field"
         /\ pc # "check_off_topic"
         /\ "check_off_topic" \notin Range(visited)
         /\ \A i \in DOMAIN calls : calls[i].site # "off_topic"
    ELSE AfterCorrectionCheck = "check_off_topic"

\* A correction turn that went check_correction -> extract_field and ended.
C11_Witness ==
  /\ pc = "end"
  /\ gs.is_correction
  /\ Len(visited) >= 3
  /\ visited[2] = "check_correction"
  /\ visited[3] = "extract_field"
  /\ MatchesOffTopicPattern(LowerWords(gs.user_message)) = FALSE

\* ---------------------------------------------------------------------------
\* The node that follows check_off_topic in the current turn (check_off_topic
\* can only be the third node of a turn).
AfterOffTopicCheck == IF Len(visited) = 3 THEN pc ELSE visited[4]

\* C12: after check_off_topic, if no uncollected field remains the turn goes
\* to complete whatever the off-topic verdict is and no off-topic capability
\* call has been issued; otherwise an off-topic utterance goes to prompt_next
\* without any extraction, and an on-topic utterance goes to extract_field.
C12_OffTopicRouting ==
  Len(visited) >= 3 /\ visited[3] = "check_off_topic" =>
    IF get_next_field_to_collect(fields, rec0) = NoField
    THEN /\ AfterOffTopicCheck = "complete"
         /\ \A i \in DOMAIN calls : calls[i].site # "off_topic"
    ELSE IF gs.is_off_topic
    THEN /\ AfterOffTopicCheck = "prompt_next"
         /\ pc # "extract_field"
         /\ "extract_field" \notin Range(visited)
         /\ \A i \in DOMAIN calls : calls[i].site # "extraction"
    ELSE AfterOffTopicCheck = "extract_field"

\* Nothing is left to collect, the utterance is judged off-topic, and the turn
\* still went to complete.
C12_Witness ==
  /\ pc = "end"
  /\ Len(visited) >= 4
  /\ visited[3] = "check_off_topic"
  /\ visited[4] = "complete"
  /\ gs.is_off_topic
  /\ get_next_field_to_collect(fields, rec0) = NoField

\* ---------------------------------------------------------------------------
\* The attempt counter of field n in a record (0 while it has no entry).
AttemptsOf(r, n) ==
  IF n \in DOMAIN r.collected_fields THEN r.collected_fields[n].attempts ELSE 0

\* C13: every extraction attempt on a field increments that field's attempt
\* counter by one, whether the extracted value turns out valid or invalid, and
\* the field's entry is created on the first attempt: once validate has run on
\* a value extracted for current_field, the record has an entry for that field
\* whose counter is one more than at the start of the turn.
C13_EveryAttemptCounted ==
  /\ "validate" \in Range(visited)
  /\ gs.current_field \notin {NULL, ""}
  /\ gs.extracted_value \notin {NULL, ""}
  => /\ gs.current_field \in DOMAIN rec.collected_fields
     /\ AttemptsOf(rec, gs.current_field) =
          AttemptsOf(rec0, gs.current_field) + 1

\* ---------------------------------------------------------------------------
\* The node that follows validate in the current turn.
AfterValidate ==
  LET k == CHOOSE i \in DOMAIN visited : visited[i] = "validate"
  IN IF k = Len(visited) THEN pc ELSE visited[k + 1]

\* validate has run in the current turn, on a record that was active when the
\* turn started, and found the extracted value not valid.
ValidationFailed ==
  /\ "validate" \in Range(visited)
  /\ gs.extracted_value \notin {NULL, ""}
  /\ ~gs.is_valid
  /\ rec0.status = "active"

\* The field a following turn would target when it is not a correction.
NextTurnTarget == get_next_field_to_collect(fields, rec).name

CorrectedValidField ==
  /\ "validate" \in Range(visited)
  /\ gs.is_correction
  /\ gs.is_valid
  /\ gs.current_field \in DOMAIN rec0.collected_fields
  /\ rec0.collected_fields[gs.current_field].is_valid

\* C15: when a correction turn targets an already-valid field and the newly
\* extracted value validates, that field's value is replaced by the new value,
\* it stays valid, and its attempt counter increases by exactly one (to 2 on
\* the first correction); no other field changes.
C15_CorrectionOverwrites ==
  CorrectedValidField =>
    LET before == rec0.collected_fields
        after == rec.collected_fields
        n == gs.current_field
    IN /\ DOMAIN after = DOMAIN before
       /\ after[n].value = gs.extracted_value
       /\ after[n].is_valid
       /\ after[n].attempts = before[n].attempts + 1
       /\ before[n].attempts = 1 => after[n].attempts = 2
       /\ \A m \in DOMAIN before \ {n} : after[m] = before[m]

\* The first correction of a valid email, in a configuration with two fields:
\* the value changed and the other field's entry is still there.
C15_Witness ==
  /\ pc = "end"
  /\ CorrectedValidField
  /\ gs.current_field = "email"
  /\ rec0.collected_fields["email"].attempts = 1
  /\ rec0.collected_fields["email"].value = "a@b.com"
  /\ rec.collected_fields["email"].value = "x@y.com"
  /\ Len(fields) = 2

\* ---------------------------------------------------------------------------
\* A capability call of the current turn, made at the given site, failed.
FailedAt(site) == \E i \in DOMAIN calls : calls[i].site = site /\ ~calls[i].ok

\* C16: for any combination of failing capability calls during a turn, the
\* turn raises no error to the caller and still ends with a reply: a failed
\* correction classification counts as not a correction, a failed off-topic
\* classification counts as on-topic, a failed extraction counts as no
\* extracted value, and a failed escalation classification counts as no
\* escalation by that policy. The only error a turn raises is the one of the
\* store update on a record that is not stored.
C16_CapabilityFailuresRecovered ==
  /\ FailedAt("correction") => ~gs.is_correction /\ gs.correction_field = NULL
  /\ FailedAt("off_topic") => ~gs.is_off_topic
  /\ FailedAt("extraction") => gs.extracted_value = NULL /\ ~gs.is_valid
  /\ \A site \in {"sentiment", "llm_intent"} :
       FailedAt(site) => engine.result.policy_type # site
  /\ pc = "end" => gs.response # ""
  /\ pc # "idle" => outcome = "running"
  /\ outcome = "AgentError" => ~stored
  /\ outcome = "returned" =>
       Last(rec.messages).role = "agent" /\ Last(rec.messages).content # ""

\* A turn in which the intent, correction, off-topic and extraction calls all
\* failed, as did every other call, and which still produced its reply.
C16_Witness ==
  /\ pc = "end"
  /\ calls # <<>>
  /\ \A i \in DOMAIN calls : ~calls[i].ok
  /\ FailedAt("llm_intent")
  /\ FailedAt("correction")
  /\ FailedAt("off_topic")
  /\ FailedAt("extraction")
  /\ gs.response # ""

\* ---------------------------------------------------------------------------
\* The sentiment and llm_intent handlers called on their own.

\* policies whose threshold lets every parsed score or confidence pass
PolSentimentAny ==
  [enabled |-> TRUE, reason |-> "angry user", policy_type |-> "sentiment",
   config |-> [threshold |-> 0]]
PolIntentAny ==
  [enabled |-> TRUE, reason |-> "asked for agent", policy_type |-> "llm_intent",
   config |-> [confidence_threshold |-> 0]]

HandlerPolicies == {PolSentiment, PolSentimentAny, PolIntent, PolIntentAny}

\* handler.evaluate(state, user_message, config, policy_id, reason) of the
\* handler of policies[1]: without a capability (llm_provider is None) it
\* returns None before any call; with one it issues one call, whose answer
\* the ledger keeps
HandlerCall ==
  /\ pc = "handler"
  /\ \E has_provider \in BOOLEAN :
     \E reply \in RepliesFor(policies[1]) :
       IF has_provider
       THEN /\ calls' = <<[step |-> "handler",
                           site |-> policies[1].policy_type,
                           ok |-> reply # FAIL,
                           reply |-> reply]>>
            /\ engine' = [EngineIdle EXCEPT
                            !.called = TRUE,
                            !.invoked = <<0>>,
                            !.result = HandlerEvaluate(policies[1], 0, rec,
                                         gs.user_message, now, reply)]
       ELSE /\ reply = FAIL
            /\ calls' = <<>>
            /\ engine' = [EngineIdle EXCEPT !.called = TRUE,
                                            !.invoked = <<0>>]
  /\ pc' = "handler_done"
  /\ UNCHANGED <<elsewhere, fields, policies, rec, stored, now, gs, turns, visited, rec0,
                 outcome>>

InitHandlers ==
  /\ fields = <<FieldName, FieldEmail>>
  /\ policies \in {<<p>> : p \in HandlerPolicies}
  /\ now \in 0..MaxTime
  /\ rec \in EngineRecords
  /\ stored = TRUE
  /\ pc = "handler"
  /\ gs \in {create_initial_state(u) : u \in Utterances}
  /\ turns = 0
  /\ visited = <<>>
  /\ calls = <<>>
  /\ engine = EngineIdle
  /\ rec0 = rec
  /\ outcome = "none"
  /\ ElsewhereIdle

NextHandlers == HandlerCall

SpecHandlers == InitHandlers /\ [][NextHandlers]_vars

\* A reply the handler of the given policy type cannot parse: for sentiment a
\* text that is not a number; for llm_intent a text without a DETECTED line,
\* without a CONFIDENCE line, or with a CONFIDENCE value that is not a number.
Unparseable(policy_type, reply) ==
  IF policy_type = "sentiment" THEN reply \notin DOMAIN ParseFloat
  ELSE LET lines == IntentLines[reply]
       IN \/ \A i \in DOMAIN lines : lines[i][1] # "DETECTED:"
          \/ \A i \in DOMAIN lines : lines[i][1] # "CONFIDENCE:"
          \/ \E i \in DOMAIN lines : /\ lines[i][1] = "CONFIDENCE:"
                                     /\ lines[i][2] \notin DOMAIN ParseFloat

\* C17: the sentiment and llm_intent handlers return no outcome whenever the
\* capability call fails, the capability is absent, or the reply cannot be
\* parsed; they never return a triggering outcome from a failed or
\* unparseable reply.
C17_NoOutcomeFromBadReply ==
  /\ pc = "handler_done"
  /\ \/ calls = <<>>
     \/ ~calls[1].ok
     \/ Unparseable(calls[1].site, calls[1].reply)
  => engine.result = NoResult

\* ---------------------------------------------------------------------------
\* C18: within one turn every step issues at most one capability call, and a
\* capability call that failed is never followed by another capability call
\* made by the same step.
C18_OneCallPerStep ==
  \A i, j \in DOMAIN calls :
    i < j => calls[i].step # calls[j].step

\* ---------------------------------------------------------------------------
\* C19: any unexpected internal error raised during a turn, including a
\* failure of the store update at the end of the turn, reaches the caller of
\* process_message only as the single error type AgentError and never as
\* another exception type: a turn is running, has returned, or has raised
\* AgentError, and the turn whose store update fails raises AgentError.
C19_OnlyAgentErrorSurfaces ==
  /\ [](outcome \in {"none", "running", "returned", "AgentError"})
  /\ [][pc = "end" /\ pc' = "idle" =>
          outcome' = IF stored THEN "returned" ELSE "AgentError"]_vars

\* A turn ran to its end on a record that had been deleted from the store, and
\* the caller got AgentError, after both messages had been appended.
C19_Witness ==
  /\ pc = "idle"
  /\ outcome = "AgentError"
  /\ ~stored
  /\ Len(rec.messages) >= 3
  /\ Last(rec.messages).role = "agent"

\* ---------------------------------------------------------------------------
\* C20: the callers of the core (the HTTP send_message handler and the
\* WebSocket message handler) invoke process_message only on records whose
\* status is active: a record that is completed, escalated or failed is never
\* passed to a turn.
C20_TurnsOnlyOnActive ==
  pc # "idle" => rec0.status = "active"

\* ---------------------------------------------------------------------------
\* The positions of the evaluation order whose policy triggers.
RECURSIVE TriggeringInOrder(_, _)
TriggeringInOrder(order, would) ==
  IF order = <<>> THEN <<>>
  ELSE (IF Head(order) \in would THEN <<Head(order)>> ELSE <<>>)
       \o TriggeringInOrder(Tail(order), would)

\* C24: evaluate_all() returns the outcome of every enabled policy whose
\* trigger fires, in priority order, without stopping at the first (every
\* enabled handler is invoked); evaluate() returns the first element of what
\* evaluate_all() returns on the same record and utterance, and returns no
\* outcome exactly when that list is empty.
C24_EvaluateIsHeadOfEvaluateAll ==
  pc = "engine_all_done" =>
    LET firing == TriggeringInOrder(engine.order, engine.would)
    IN /\ Len(engine.all) = Len(firing)
       /\ \A k \in DOMAIN firing : OutcomeOf(engine.all[k], firing[k])
       /\ \A a, b \in DOMAIN firing : a < b => Before(firing[a], firing[b])
       /\ Range(firing) = engine.would
       /\ engine.all_invoked = engine.order
       /\ engine.result = NoResult <=> engine.all = <<>>
       /\ engine.all # <<>> => engine.result = engine.all[1]

\* Two policies both trigger, the one configured second ranking first:
\* evaluate_all() returns both outcomes, the keyword outcome first.
C24_Witness ==
  /\ pc = "engine_all_done"
  /\ Len(engine.all) = 2
  /\ engine.order = <<1, 0>>
  /\ engine.all[1].policy_type = "keyword"
  /\ engine.result = engine.all[1]

\* ---------------------------------------------------------------------------
\* The configured policies that are not enabled, by position from 0.
Disabled == {i \in 0..(Len(policies) - 1) : ~policies[i + 1].enabled}

\* C25: a disabled policy is never evaluated and never produces an outcome,
\* in evaluate() and in evaluate_all(); has_policies() is true exactly when
\* at least one configured policy is enabled.
C25_DisabledNeverEvaluated ==
  /\ engine.called =>
       \A i \in Disabled :
         /\ i \notin Range(engine.invoked)
         /\ i \notin Range(engine.order)
         /\ engine.result.policy_id # PolicyId(i, policies[i + 1].policy_type)
  /\ pc = "engine_all_done" =>
       /\ \A i \in Disabled :
            /\ i \notin Range(engine.all_invoked)
            /\ \A k \in DOMAIN engine.all :
                 engine.all[k].policy_id #
                   PolicyId(i, policies[i + 1].policy_type)
       /\ engine.has_policies <=> Disabled # 0..(Len(policies) - 1)

\* The disabled keyword policy is configured with an enabled policy, the
\* utterance holds its keyword, and neither evaluate() nor evaluate_all()
\* gives an outcome.
C25_Witness ==
  /\ pc = "engine_all_done"
  /\ Len(policies) = 2
  /\ Disabled = {0}
  /\ policies[1] = PolKeywordOff
  /\ KeywordEvaluate(rec, gs.user_message, PolKeywordOff.config,
                     PolicyId(0, "keyword"), PolKeywordOff.reason) # NoResult
  /\ engine.has_policies
  /\ engine.all = <<>>
  /\ engine.result = NoResult

\* ---------------------------------------------------------------------------
\* The names of the fields collected when the turn in flight started.
CollectedAtStart == DOMAIN get_collected_data(rec0)

\* check_correction has run on an utterance that a correction-cue pattern
\* matches, and the word the pattern captured names no collected field.
CueWithoutField ==
  /\ Len(visited) >= 2
  /\ visited[2] = "check_correction"
  /\ CorrectionMatchOf[gs.user_message].matched
  /\ LET hint == CorrectionMatchOf[gs.user_message].hint
     IN \/ hint = NULL
        \/ \A f \in CollectedAtStart : ~IsSubstr(Lower(hint), Lower(f))

\* what C26 requires of such a turn: a correction with no target, whose
\* extraction targets the next outstanding field
FlaggedWithoutTarget ==
  /\ gs.is_correction
  /\ gs.correction_field = NULL
  /\ "extract_field" \in Range(visited) =>
       gs.current_field = get_next_field_to_collect(fields, rec0).name

\* C26 as stated: whenever a correction-cue pattern matches the utterance but
\* no collected field is identified from it, the correction detector still
\* flags the utterance as a correction with no target, and extraction then
\* targets the next outstanding field.
C26_CueAlwaysFlagged == CueWithoutField => FlaggedWithoutTarget

\* C26 amended: whenever a correction-cue pattern matches the utterance, at
\* least one field has been collected and no collected field is identified
\* from the utterance, the correction detector flags the utterance as a
\* correction with no target, and extraction then targets the next
\* outstanding field; while nothing has been collected the utterance is not
\* flagged as a correction.
C26_CueFlaggedOnceCollected ==
  CueWithoutField =>
    IF CollectedAtStart # {} THEN FlaggedWithoutTarget
    ELSE ~gs.is_correction /\ gs.correction_field = NULL

\* The name is collected, "i meant bob" names no collected field: the turn is
\* a correction without target and extraction went to email.
C26_Witness ==
  /\ pc = "end"
  /\ CueWithoutField
  /\ CollectedAtStart = {"name"}
  /\ gs.is_correction
  /\ gs.correction_field = NULL
  /\ gs.current_field = "email"
  /\ fields[1].name = "name"

\* ===========================================================================
\* The StateStore shared by threads, and the configuration endpoint.

MaxOps == 3

SessionIds == {"s1", "s2"}
Threads == {"t1", "t2"}

\* a datetime: the clock reading, and whether it carries a time zone
\* (datetime.now(timezone.utc)) or not (datetime.utcnow())
Aware(t) == [at |-> t, aware |-> TRUE]
Naive(t) == [at |-> t, aware |-> FALSE]

\* ConversationState(session_id=...) at time t, as far as the store reads it,
\* after the mark_* call that gives the status: updated_at carries a time zone
NewState(session_id, status, t) ==
  [session_id |-> session_id, status |-> status, updated_at |-> Aware(t)]

\* a dict without the keys that are not in keep
Restrict(d, keep) == [k \in (DOMAIN d) \cap keep |-> d[k]]

\* StateStore.create, inside the lock
store_create(states, state) ==
  IF state.session_id \in DOMAIN states
  THEN [raised |-> "ValueError", result |-> NULL, states |-> states]
  ELSE [raised |-> NULL, result |-> state.session_id,
        states |-> Put(states, state.session_id, state)]

\* Mutant of store_update: a session id that is not stored is inserted.
store_update_upsert(states, state, t) ==
  [raised |-> NULL, result |-> state.session_id,
   states |-> Put(states, state.session_id,
                  [state EXCEPT !.updated_at = Naive(t)])]

\* StateStore.update at time t, inside the lock: updated_at becomes
\* datetime.utcnow()
store_update(states, state, t) ==
  IF state.session_id \notin DOMAIN states
  THEN [raised |-> "ValueError", result |-> NULL, states |-> states]
  ELSE [raised |-> NULL, result |-> state.session_id,
        states |-> Put(states, state.session_id,
                       [state EXCEPT !.updated_at = Naive(t)])]

\* StateStore.delete, inside the lock
store_delete(states, session_id) ==
  IF session_id \in DOMAIN states
  THEN [raised |-> NULL, result |-> TRUE,
        states |-> Restrict(states, (DOMAIN states) \ {session_id})]
  ELSE [raised |-> NULL, result |-> FALSE, states |-> states]

\* Mutant of get_active_sessions: no stored session is reported.
get_active_sessions_none(states) == {}

\* StateStore.get_active_sessions
get_active_sessions(states) ==
  {session_id \in DOMAIN states : states[session_id].status = "active"}

\* StateStore.cleanup_old_sessions at time t, inside the lock: now is
\* datetime.utcnow(), and now - state.updated_at raises TypeError when
\* updated_at carries a time zone; the sessions are deleted after the loop
cleanup_old_sessions(states, max_age_seconds, t) ==
  LET inactive == {session_id \in DOMAIN states :
                    states[session_id].status # "active"}
      to_delete == {session_id \in inactive :
                      t - states[session_id].updated_at.at > max_age_seconds}
  IN IF \E session_id \in inactive : states[session_id].updated_at.aware
     THEN [raised |-> "TypeError", result |-> NULL, states |-> states]
     ELSE [raised |-> NULL, result |-> Cardinality(to_delete),
           states |-> Restrict(states, (DOMAIN states) \ to_delete)]

\* the calls a thread may make
CreateCalls ==
  {[op |-> "create", session_id |-> s, status |-> st, max_age_seconds |-> 0] :
     s \in SessionIds, st \in {"active", "completed"}}
StoreCalls ==
  CreateCalls
  \cup {[op |-> "update", session_id |-> s, status |-> st,
         max_age_seconds |-> 0] :
          s \in SessionIds, st \in {"active", "completed"}}
  \cup {[op |-> "delete", session_id |-> s, status |-> NULL,
         max_age_seconds |-> 0] : s \in SessionIds}
  \cup {[op |-> "cleanup_old_sessions", session_id |-> NULL, status |-> NULL,
         max_age_seconds |-> 0]}

\* Mutant of LockFree: the lock never makes a thread wait.
LockFree_always(lock) == TRUE

\* threading.Lock: free when no thread holds it
LockFree(lock) == lock = NULL

\* the store calls made so far, those that have not returned included
RECURSIVE CallsOf(_)
CallsOf(ths) ==
  IF ths = {} THEN 0
  ELSE LET th == CHOOSE x \in ths : TRUE
       IN Len(threads[th].log) + (IF threads[th].pc = "idle" THEN 0 ELSE 1)
          + CallsOf(ths \ {th})
CallsMade == CallsOf(Threads)

\* thread th enters a store method and reaches "with self._lock"
Begin(th, call) ==
  /\ threads[th].pc = "idle"
  /\ CallsMade < MaxOps
  /\ threads' = [threads EXCEPT ![th] =
                   [@ EXCEPT !.pc = "acquire", !.call = call,
                             !.raised = NULL, !.result = NULL]]
  /\ UNCHANGED <<store, app, parked, fields, policies, rec, stored, now, pc,
                 gs, turns, visited, calls, engine, rec0, outcome>>

\* "with self._lock": the thread waits until the lock is free and takes it
Acquire(th) ==
  /\ threads[th].pc = "acquire"
  /\ LockFree(store.lock)
  /\ store' = [store EXCEPT !.lock = th]
  /\ threads' = [threads EXCEPT ![th].pc =
                   IF threads[th].call.op = "create" THEN "check" ELSE "body"]
  /\ UNCHANGED <<app, parked, fields, policies, rec, stored, now, pc, gs,
                 turns, visited, calls, engine, rec0, outcome>>

\* create, line "if state.session_id in self._states": raise or go on
CreateCheck(th) ==
  /\ threads[th].pc = "check"
  /\ LET call == threads[th].call
         did == store_create(store.states,
                             NewState(call.session_id, call.status, now))
     IN threads' = [threads EXCEPT ![th] =
                      IF did.raised # NULL
                      THEN [@ EXCEPT !.pc = "release", !.raised = did.raised]
                      ELSE [@ EXCEPT !.pc = "insert"]]
  /\ UNCHANGED <<store, app, parked, fields, policies, rec, stored, now, pc,
                 gs, turns, visited, calls, engine, rec0, outcome>>

\* create, line "self._states[state.session_id] = state"
CreateInsert(th) ==
  /\ threads[th].pc = "insert"
  /\ LET call == threads[th].call
         state == NewState(call.session_id, call.status, now)
     IN /\ store' = [store EXCEPT
                       !.states = Put(@, call.session_id, state)]
        /\ threads' = [threads EXCEPT ![th] =
                         [@ EXCEPT !.pc = "release",
                                   !.result = call.session_id]]
  /\ UNCHANGED <<app, parked, fields, policies, rec, stored, now, pc, gs,
                 turns, visited, calls, engine, rec0, outcome>>

\* the body of update, delete or cleanup_old_sessions, inside the lock
Body(th) ==
  /\ threads[th].pc = "body"
  /\ LET call == threads[th].call
         did == CASE call.op = "update" ->
                       store_update(store.states,
                                    NewState(call.session_id, call.status, now),
                                    now)
                  [] call.op = "delete" ->
                       store_delete(store.states, call.session_id)
                  [] call.op = "cleanup_old_sessions" ->
                       cleanup_old_sessions(store.states,
                                            call.max_age_seconds, now)
     IN /\ store' = [store EXCEPT !.states = did.states]
        /\ threads' = [threads EXCEPT ![th] =
                         [@ EXCEPT !.pc = "release", !.raised = did.raised,
                                   !.result = did.result]]
  /\ UNCHANGED <<app, parked, fields, policies, rec, stored, now, pc, gs,
                 turns, visited, calls, engine, rec0, outcome>>

\* the end of "with self._lock": the lock is released, the call returns or
\* raises, and the thread's log keeps how it ended
Release(th) ==
  /\ threads[th].pc = "release"
  /\ store' = [store EXCEPT !.lock = NULL]
  /\ threads' = [threads EXCEPT ![th] =
                   [@ EXCEPT !.pc = "idle",
                             !.log = Append(@, [call |-> threads[th].call,
                                                raised |-> threads[th].raised,
                                                result |-> threads[th].result])]]
  /\ UNCHANGED <<app, parked, fields, policies, rec, stored, now, pc, gs,
                 turns, visited, calls, engine, rec0, outcome>>

\* the configurations PUT /config may be asked for: two that load, one whose
\* file does not exist, one that load_config_from_yaml rejects
ConfigNames == {"basic", "advanced", "missing", "broken"}

\* config_routes.load_config(request) on the event loop: the handler has no
\* await, and get_active_sessions() takes the lock of the store
load_config(config_name) ==
  /\ store.lock = NULL
  /\ app' = IF get_active_sessions(store.states) # {}
            THEN [app EXCEPT !.answer = "409"]
            ELSE IF config_name = "missing"
            THEN [app EXCEPT !.answer = "404"]
            ELSE IF config_name = "broken"
            THEN [app EXCEPT !.answer = "400"]
            ELSE [config |-> config_name, agent |-> config_name,
                  answer |-> "200"]
  /\ UNCHANGED <<store, threads, parked, fields, policies, rec, stored, now,
                 pc, gs, turns, visited, calls, engine, rec0, outcome>>

\* the clock of the store advances
StoreTick ==
  /\ now < MaxTime
  /\ now' = now + 1
  /\ UNCHANGED <<elsewhere, fields, policies, rec, stored, pc, gs, turns,
                 visited, calls, engine, rec0, outcome>>

\* an empty store, idle threads, the API started with the basic configuration
InitStore ==
  /\ fields = <<FieldName, FieldEmail>>
  /\ policies = <<>>
  /\ now = 0
  /\ rec = NewRecord(0)
  /\ stored = FALSE
  /\ pc = "store"
  /\ gs = create_initial_state("")
  /\ turns = 0
  /\ visited = <<>>
  /\ calls = <<>>
  /\ engine = EngineIdle
  /\ rec0 = rec
  /\ outcome = "none"
  /\ parked = <<>>
  /\ store = [states |-> <<>>, lock |-> NULL]
  /\ threads = [th \in Threads |->
                  [pc |-> "idle", call |-> NULL, raised |-> NULL,
                   result |-> NULL, log |-> <<>>]]
  /\ app = [config |-> "basic", agent |-> "basic", answer |-> NULL]

NextStore ==
  \/ \E th \in Threads : \E call \in StoreCalls : Begin(th, call)
  \/ \E th \in Threads : Acquire(th)
  \/ \E th \in Threads : CreateCheck(th)
  \/ \E th \in Threads : CreateInsert(th)
  \/ \E th \in Threads : Body(th)
  \/ \E th \in Threads : Release(th)
  \/ \E config_name \in ConfigNames : load_config(config_name)
  \/ StoreTick

SpecStore == InitStore /\ [][NextStore]_vars


\* the scenario of concurrent creates: the threads call nothing but create
NextCreates ==
  \/ \E th \in Threads : \E call \in CreateCalls : Begin(th, call)
  \/ \E th \in Threads : Acquire(th)
  \/ \E th \in Threads : CreateCheck(th)
  \/ \E th \in Threads : CreateInsert(th)
  \/ \E th \in Threads : Release(th)

SpecCreates == InitStore /\ [][NextCreates]_vars


\* ---------------------------------------------------------------------------
\* C27: the store rejects invalid operations without changing its content:
\* create of a stored session id raises ValueError and keeps the stored
\* record, update of a session id that is not stored raises ValueError and
\* inserts nothing, delete of a session id that is not stored returns False.

\* thread th runs the deciding line of its call in this step
Decides(th) ==
  /\ threads[th].pc \in {"check", "body"}
  /\ threads'[th].pc # threads[th].pc

InvalidCallRejected(th) ==
  LET call == threads[th].call
      known == call.session_id \in DOMAIN store.states
  IN /\ (call.op = "create" /\ known)
          => /\ threads'[th].raised = "ValueError"
             /\ threads'[th].pc = "release"
             /\ store'.states = store.states
     /\ (call.op = "update" /\ ~known)
          => /\ threads'[th].raised = "ValueError"
             /\ store'.states = store.states
     /\ (call.op = "delete" /\ ~known)
          => /\ threads'[th].raised = NULL
             /\ threads'[th].result = FALSE
             /\ store'.states = store.states

C27_InvalidOperationsRejected ==
  [][\A th \in Threads : Decides(th) => InvalidCallRejected(th)]_vars

C27_Witness ==
  \E th \in Threads :
    /\ threads[th].pc = "release"
    /\ threads[th].call.op = "update"
    /\ threads[th].raised = "ValueError"
    /\ store.states # <<>>

\* ---------------------------------------------------------------------------
\* C28: store operations are atomic under concurrent threads: of the creates
\* with one session id exactly one succeeds and the others raise ValueError,
\* and once the threads are done the store holds exactly the session ids that
\* were created.

\* the create calls for session_id that have ended, as <<thread, index>>
CreatesEnded(session_id) ==
  {e \in Threads \X (1..MaxOps) :
     /\ e[2] <= Len(threads[e[1]].log)
     /\ threads[e[1]].log[e[2]].call.session_id = session_id}

CreatesSucceeded(session_id) ==
  {e \in CreatesEnded(session_id) :
     /\ threads[e[1]].log[e[2]].raised = NULL
     /\ threads[e[1]].log[e[2]].result = session_id}

CreatesRefused(session_id) ==
  {e \in CreatesEnded(session_id) :
     threads[e[1]].log[e[2]].raised = "ValueError"}

ThreadsDone == \A th \in Threads : threads[th].pc = "idle"

C28_CreatesAtomic ==
  /\ \A session_id \in SessionIds :
       /\ Cardinality(CreatesSucceeded(session_id)) <= 1
       /\ CreatesEnded(session_id) =
            CreatesSucceeded(session_id) \cup CreatesRefused(session_id)
       /\ CreatesSucceeded(session_id) # {} => session_id \in DOMAIN store.states
  /\ ThreadsDone =>
       /\ \A session_id \in SessionIds :
            CreatesEnded(session_id) # {}
              => Cardinality(CreatesSucceeded(session_id)) = 1
       /\ Cardinality(DOMAIN store.states) =
            Cardinality({session_id \in SessionIds :
                           CreatesEnded(session_id) # {}})

C28_Witness ==
  /\ ThreadsDone
  /\ \E session_id \in SessionIds :
       \E e \in CreatesSucceeded(session_id) :
         \E f \in CreatesRefused(session_id) : e[1] # f[1]
  /\ Cardinality(DOMAIN store.states) = 2

\* ---------------------------------------------------------------------------
\* C29: cleanup_old_sessions(max_age) removes exactly the stored sessions
\* that are not Active and whose last update is more than max_age seconds
\* old, returns the number removed, and never removes an Active session.

Outdated(max_age_seconds) ==
  {session_id \in DOMAIN store.states :
     /\ store.states[session_id].status # "active"
     /\ now - store.states[session_id].updated_at.at > max_age_seconds}

CleanupDone(th) ==
  LET old == Outdated(threads[th].call.max_age_seconds)
  IN /\ threads'[th].raised = NULL
     /\ threads'[th].result = Cardinality(old)
     /\ DOMAIN store'.states = (DOMAIN store.states) \ old
     /\ \A session_id \in DOMAIN store'.states :
          store'.states[session_id] = store.states[session_id]

C29_CleanupRemovesOutdated ==
  [][\A th \in Threads :
       (Decides(th) /\ threads[th].call.op = "cleanup_old_sessions")
         => CleanupDone(th)]_vars

\* ---------------------------------------------------------------------------
\* C23: the configuration is never replaced while a session in the store is
\* Active: load_config answers 409 and leaves the configuration and the agent
\* unchanged in that case, and succeeds only when no Active session exists.

ActiveStored ==
  {session_id \in DOMAIN store.states :
     store.states[session_id].status = "active"}

C23_NoReloadWhileActive ==
  [][app' # app =>
       /\ ActiveStored # {} =>
            /\ app'.answer = "409"
            /\ app'.config = app.config
            /\ app'.agent = app.agent
       /\ app'.answer = "200" => ActiveStored = {}]_vars

C23_Witness ==
  /\ app.answer = "409"
  /\ ActiveStored # {}
  /\ app.config = "basic"


\* ===========================================================================
\* Turns on a conversation that has collected two fields whose names share a
\* word: "email" and "work_email" are collected, "name" is still missing.

InitCorrections ==
  /\ fields = <<FieldEmail, FieldWorkEmail, FieldName>>
  /\ policies = <<PolKeyword>>
  /\ now = 0
  /\ rec = update_field_value(
             update_field_value(NewRecord(0), "email", "x@y.com", TRUE, 0),
             "work_email", "a@b.com", TRUE, 0)
  /\ stored = TRUE
  /\ pc = "idle"
  /\ gs = create_initial_state("")
  /\ turns = 0
  /\ visited = <<>>
  /\ calls = <<>>
  /\ engine = EngineIdle
  /\ rec0 = rec
  /\ outcome = "none"
  /\ ElsewhereIdle

SpecCorrections == InitCorrections /\ [][Next]_vars

\* ---------------------------------------------------------------------------
\* C30: a turn is deterministic: from equal records, with the same utterance,
\* configuration, clock reading and capability replies, it visits the same
\* steps and produces the same reply and record, the correction target
\* included.  Here: where the correction check asks the capability nothing,
\* the state fixes the correction target.

CorrectionTargets == {NULL} \cup {fields[i].name : i \in DOMAIN fields}

C30_CorrectionTargetDetermined ==
  \A a, b \in CorrectionTargets :
    (/\ ENABLED (check_correction_node /\ calls' = calls
                 /\ gs'.correction_field = a)
     /\ ENABLED (check_correction_node /\ calls' = calls
                 /\ gs'.correction_field = b))
      => a = b


\* ===========================================================================
\* Two process_message calls on one event loop.  The variables of the turn
\* (rec, pc, gs, ...) are those of the call that is running; parked.other is
\* the call that is suspended, or has not started, with its session id.  Two
\* calls on the same session work on the one record store.get returns; turns
\* counts the calls made on either.

\* what the users of each session write
SessionUtterances(session_id) ==
  IF session_id = "s1" THEN {"jane", "talk to a Human"}
  ELSE {"hello", "sorry jane"}

\* Mutant of Switch: the calls share one graph state.
Switch_shared_graph_state ==
  LET other == parked.other
      same == other.session = parked.session
  IN /\ parked' = [session |-> other.session,
                   other |-> [session |-> parked.session,
                              rec |-> IF same THEN NULL ELSE rec,
                              pc |-> pc, gs |-> gs, visited |-> visited,
                              calls |-> calls, engine |-> engine,
                              rec0 |-> rec0, outcome |-> outcome]]
     /\ rec' = IF same THEN rec ELSE other.rec
     /\ pc' = other.pc
     /\ gs' = gs
     /\ visited' = other.visited
     /\ calls' = other.calls
     /\ engine' = other.engine
     /\ rec0' = other.rec0
     /\ outcome' = other.outcome
     /\ UNCHANGED <<store, threads, app, fields, policies, stored, now,
                    turns>>

\* the event loop suspends the running call where graph.ainvoke awaits (or
\* leaves it finished) and resumes the other one: each call has its own
\* GraphState and locals, and its record unless both are on one session
Switch ==
  LET other == parked.other
      same == other.session = parked.session
  IN /\ parked' = [session |-> other.session,
                   other |-> [session |-> parked.session,
                              rec |-> IF same THEN NULL ELSE rec,
                              pc |-> pc, gs |-> gs, visited |-> visited,
                              calls |-> calls, engine |-> engine,
                              rec0 |-> rec0, outcome |-> outcome]]
     /\ rec' = IF same THEN rec ELSE other.rec
     /\ pc' = other.pc
     /\ gs' = other.gs
     /\ visited' = other.visited
     /\ calls' = other.calls
     /\ engine' = other.engine
     /\ rec0' = other.rec0
     /\ outcome' = other.outcome
     /\ UNCHANGED <<store, threads, app, fields, policies, stored, now,
                    turns>>

\* two conversations just started (or one, used by both calls), no call yet
InitSessions ==
  /\ fields = <<FieldName>>
  /\ policies = <<PolKeyword>>
  /\ now = 0
  /\ rec = NewRecord(0)
  /\ stored = TRUE
  /\ pc = "idle"
  /\ gs = create_initial_state("")
  /\ turns = 0
  /\ visited = <<>>
  /\ calls = <<>>
  /\ engine = EngineIdle
  /\ rec0 = NewRecord(0)
  /\ outcome = "none"
  /\ \E session_id \in SessionIds :
       parked = [session |-> "s1",
                 other |-> [session |-> session_id,
                            rec |-> IF session_id = "s1" THEN NULL
                                    ELSE NewRecord(0),
                            pc |-> "idle", gs |-> create_initial_state(""),
                            visited |-> <<>>, calls |-> <<>>,
                            engine |-> EngineIdle, rec0 |-> NewRecord(0),
                            outcome |-> "none"]]
  /\ store = [states |-> <<>>, lock |-> NULL]
  /\ threads = <<>>
  /\ app = NULL

NextSessions ==
  \/ \E content \in SessionUtterances(parked.session) : send_message(content)
  \/ TurnStep
  \/ Switch

SpecSessions == InitSessions /\ [][NextSessions]_vars


\* ---------------------------------------------------------------------------
\* C21: for one session id at most one turn is in flight: a second turn on
\* the session does not start before the first has finished.

SameSession == parked.other.session = parked.session

C21_OneTurnInFlight ==
  SameSession => ~(pc # "idle" /\ parked.other.pc # "idle")

\* ---------------------------------------------------------------------------
\* C22: turns running concurrently on different sessions do not interfere:
\* under every interleaving each session's record and graph state are those
\* of its own turns: its record alternates agent and user messages, holds
\* only what its own user wrote, and the turn in flight works on the last
\* message of its own record.

TurnsAlone(session_id, p, g, r) ==
  /\ \A i \in DOMAIN r.messages :
       /\ r.messages[i].role = (IF i % 2 = 1 THEN "agent" ELSE "user")
       /\ r.messages[i].role = "user"
            => r.messages[i].content \in SessionUtterances(session_id)
  /\ p # "idle" =>
       r.messages[Len(r.messages)] = [role |-> "user", content |-> g.user_message]
  /\ p = "idle" => r.messages[Len(r.messages)].role = "agent"

\* the state of the running call, as it is kept while the call is suspended
Running ==
  [session |-> parked.session, rec |-> rec, pc |-> pc, gs |-> gs,
   visited |-> visited, calls |-> calls, engine |-> engine, rec0 |-> rec0,
   outcome |-> outcome]

\* a step of the running call leaves the suspended call as it is, and a call
\* resumes with exactly the state it was suspended with
SuspendedUntouched ==
  ~SameSession =>
    \/ parked' = parked
    \/ /\ parked'.other = Running
       /\ Running' = parked.other

C22_SessionsDoNotInterfere ==
  /\ [](~SameSession =>
         /\ TurnsAlone(parked.session, pc, gs, rec)
         /\ TurnsAlone(parked.other.session, parked.other.pc, parked.other.gs,
                       parked.other.rec))
  /\ [][SuspendedUntouched]_vars

C22_Witness ==
  /\ ~SameSession
  /\ outcome = "returned"
  /\ pc = "idle"
  /\ parked.other.pc = "validate"
  /\ Len(rec.messages) = 3


\* ---------------------------------------------------------------------------
\* C31: ExtractField targets the correction target whenever the correction
\* detector identified one (by pattern, or by a capability reply
\* CORRECTION:<field> naming a configured field) and the next uncollected
\* field otherwise, and always hands over to Validate.

\* the configured field the correction detector named, whatever the case of
\* the letters it was named in
NamedField ==
  IF gs.is_correction /\ gs.correction_field \notin {NULL, ""}
  THEN FirstField(fields, {f \in Range(fields) :
                             Lower(f.name) = Lower(gs.correction_field)})
  ELSE NoField

ExpectedTarget ==
  IF NamedField # NoField THEN NamedField
  ELSE get_next_field_to_collect(fields, rec)

C31_ExtractionTargetsCorrection ==
  [][(pc = "extract_field" /\ pc' # pc) =>
       /\ pc' = "validate"
       /\ gs'.current_field =
            (IF ExpectedTarget = NoField THEN NULL ELSE ExpectedTarget.name)]_vars


\* ---------------------------------------------------------------------------
\* C32: an extraction whose capability reply is NOT_PROVIDED or INVALID, or
\* whose capability call fails, yields no extracted value; in that turn
\* validation reports invalid and nothing is written to the record; and
\* validation reports invalid for an empty value or a sentinel value for
\* every field type and pattern.

Sentinels == {"NOT_PROVIDED", "INVALID"}

\* the turn has passed Validate with no extracted value
ValidatedNothing ==
  /\ pc # "idle"
  /\ "validate" \in Range(visited)
  /\ gs.extracted_value = NULL

NoValueNoWrite ==
  ValidatedNothing =>
    /\ ~gs.is_valid
    /\ rec.collected_fields = rec0.collected_fields

SentinelsInvalid ==
  \A f \in Range(fields) :
    \A value \in Sentinels \cup {""} : ~validate_field_value(f, value)

ExtractionYieldsNoSentinel ==
  (pc = "extract_field" /\ pc' # pc) =>
    /\ gs'.extracted_value \notin Sentinels
    /\ (Len(calls') > Len(calls) /\ ~calls'[Len(calls')].ok)
         => gs'.extracted_value = NULL

C32_NoValueFromSentinelOrFailure ==
  /\ [](NoValueNoWrite /\ SentinelsInvalid)
  /\ [][ExtractionYieldsNoSentinel]_vars

C32_Witness ==
  /\ ValidatedNothing
  /\ \E i \in DOMAIN calls : calls[i].site = "extraction" /\ ~calls[i].ok
  /\ rec0.collected_fields # EmptyDict
  /\ pc = "end"


\* ---------------------------------------------------------------------------
\* C33: get_next_field_to_collect returns the first configured required
\* field without a valid value, in configuration order; if every required
\* field is collected, the first uncollected optional field in configuration
\* order; and none exactly when every configured field has a valid value.

\* the positions of the configured fields that have no valid value
Uncollected(required) ==
  {i \in DOMAIN fields :
     /\ fields[i].required = required
     /\ ~(/\ fields[i].name \in DOMAIN rec.collected_fields
          /\ rec.collected_fields[fields[i].name].is_valid
          /\ rec.collected_fields[fields[i].name].value # NULL)}

Lowest(positions) == CHOOSE i \in positions : \A j \in positions : i <= j

C33_NextFieldRequiredFirst ==
  LET next_field == get_next_field_to_collect(fields, rec)
  IN /\ Uncollected(TRUE) # {} => next_field = fields[Lowest(Uncollected(TRUE))]
     /\ (Uncollected(TRUE) = {} /\ Uncollected(FALSE) # {})
          => next_field = fields[Lowest(Uncollected(FALSE))]
     /\ next_field = NoField <=> Uncollected(TRUE) \cup Uncollected(FALSE) = {}

C33_Witness ==
  /\ Len(fields) = 2
  /\ ~fields[1].required
  /\ Uncollected(TRUE) = {}
  /\ get_next_field_to_collect(fields, rec) = fields[1]
  /\ pc = "prompt_next"


\* ---------------------------------------------------------------------------
\* Claims about single handlers, read from the sweep of evaluate_all, which
\* invokes the handler of every enabled policy.

\* the positions in the results of the sweep that policy number i produced
Swept(i) ==
  {k \in DOMAIN engine.all :
     engine.all[k].policy_id = PolicyId(i, policies[i + 1].policy_type)}

\* the enabled policies of a type, by number
EnabledOfType(policy_type) ==
  {i \in 0..(Len(policies) - 1) :
     policies[i + 1].enabled /\ policies[i + 1].policy_type = policy_type}

HasValidValue(field_name) ==
  /\ field_name \in DOMAIN rec.collected_fields
  /\ rec.collected_fields[field_name].is_valid
  /\ rec.collected_fields[field_name].value # NULL

\* C34: the completion handler with a non-empty required-field list triggers,
\* with confidence 1.0, exactly when (escalate_when_complete is true and every
\* listed field is collected) or (escalate_when_complete is false and at least
\* one listed field is missing); with an empty list it never triggers.
C34_CompletionTriggersExactly ==
  pc = "engine_all_done" =>
    \A i \in EnabledOfType("completion") :
      LET config == policies[i + 1].config
          listed == IF "required_fields" \in DOMAIN config
                    THEN config.required_fields ELSE <<>>
          when_complete == IF "escalate_when_complete" \in DOMAIN config
                           THEN config.escalate_when_complete ELSE TRUE
          complete == \A k \in DOMAIN listed : HasValidValue(listed[k])
      IN /\ Swept(i) # {} <=>
              /\ listed # <<>>
              /\ \/ when_complete /\ complete
                 \/ ~when_complete /\ ~complete
         /\ \A k \in Swept(i) : /\ engine.all[k].should_escalate
                                /\ engine.all[k].confidence = 10

C34_Witness ==
  /\ pc = "engine_all_done"
  /\ Len(policies) = 2
  /\ policies[1] = PolIncomplete
  /\ policies[2].policy_type = "completion"
  /\ policies[2].config.required_fields = <<>>
  /\ Swept(0) # {}
  /\ Swept(1) = {}
  /\ HasValidValue("email")

\* C35: the timeout handler triggers exactly when the conversation's elapsed
\* time is strictly greater than the configured maximum, where elapsed time is
\* end minus start for an ended conversation and now minus start otherwise; a
\* missing or non-numeric maximum never triggers.
C35_TimeoutTriggersExactly ==
  pc = "engine_all_done" =>
    \A i \in EnabledOfType("timeout") :
      LET config == policies[i + 1].config
          numeric == /\ "max_duration_seconds" \in DOMAIN config
                     /\ config.max_duration_seconds \in DOMAIN ParseFloat
          elapsed == IF rec.ended_at # NoTime THEN rec.ended_at - rec.started_at
                     ELSE now - rec.started_at
      IN Swept(i) # {} <=>
           (numeric /\ elapsed * 10 > ParseFloat[config.max_duration_seconds])

C35_Witness ==
  /\ pc = "engine_all_done"
  /\ Len(policies) = 2
  /\ policies[1] = PolTimeout
  /\ policies[2].policy_type = "timeout"
  /\ policies[2].config = [max_duration_seconds |-> "soon"]
  /\ rec.ended_at = NoTime
  /\ now = 1
  /\ Swept(0) # {}
  /\ Swept(1) = {}

\* C36: every outcome returned by a handler or by the engine has its
\* triggered flag true and a confidence within [0,1]; the sentiment handler
\* clamps the rated score to [0,1] before comparing, triggers exactly when the
\* clamped score is at least the threshold, and reports the clamped score as
\* confidence.  (Scores and confidences are counted in tenths.)
WellFormedOutcome(result) ==
  /\ result.should_escalate
  /\ result.confidence \in 0..10

C36_OutcomesWellFormed ==
  pc = "engine_all_done" =>
    /\ engine.result # NoResult => WellFormedOutcome(engine.result)
    /\ \A k \in DOMAIN engine.all : WellFormedOutcome(engine.all[k])
    /\ \A i \in EnabledOfType("sentiment") :
         LET config == policies[i + 1].config
             threshold == IF "threshold" \in DOMAIN config
                          THEN config.threshold ELSE 7
             reply == engine.oracle[i + 1]
             rated == reply \in DOMAIN ParseFloat
             clamped == IF ParseFloat[reply] < 0 THEN 0
                        ELSE IF ParseFloat[reply] > 10 THEN 10
                        ELSE ParseFloat[reply]
         IN /\ Swept(i) # {} <=> (rated /\ clamped >= threshold)
            /\ \A k \in Swept(i) : engine.all[k].confidence = clamped

C36_Witness ==
  /\ pc = "engine_all_done"
  /\ Len(policies) = 2
  /\ policies[1].policy_type = "sentiment"
  /\ policies[2].policy_type = "sentiment"
  /\ policies[1].config = [threshold |-> 9]
  /\ engine.oracle = <<"0.9", "1.5">>
  /\ Swept(0) # {}
  /\ \E k \in Swept(1) : engine.all[k].confidence = 10


C38_CollectedStaysCollected ==
  [][\A n \in DOMAIN rec.collected_fields :
       /\ n \in DOMAIN rec'.collected_fields
       /\ rec.collected_fields[n].is_valid => rec'.collected_fields[n].is_valid
       /\ rec'.collected_fields[n].attempts >= rec.collected_fields[n].attempts
       /\ HasValidValue(n) => rec'.collected_fields[n].value # NULL]_vars

C38_Witness ==
  \E n \in DOMAIN rec.collected_fields :
    /\ rec.collected_fields[n].attempts = 2
    /\ rec.collected_fields[n].is_valid
    /\ n \in DOMAIN rec0.collected_fields
    /\ rec0.collected_fields[n].attempts = 1

\* ---------------------------------------------------------------------------
\* C39: starting from a new conversation, every entry that turns write into
\* the record's field map belongs to a field name of the configuration, is
\* marked valid, and holds a value that passed validation for that field's
\* type and pattern (hence never empty, NOT_PROVIDED or INVALID).
C39_EntriesAreValidated ==
  \A n \in DOMAIN rec.collected_fields :
    /\ \E i \in DOMAIN fields :
         /\ fields[i].name = n
         /\ validate_field_value(fields[i], rec.collected_fields[n].value)
    /\ rec.collected_fields[n].is_valid
    /\ rec.collected_fields[n].value \notin {NULL, "", "NOT_PROVIDED", "INVALID"}

C39_Witness ==
  /\ DOMAIN rec.collected_fields = {"name", "email"}
  /\ fields[1].validation_pattern # NULL
  /\ rec.collected_fields["email"].value = "a@b.com"
  /\ pc = "complete"


\* ---------------------------------------------------------------------------
\* C40: if no escalation policy triggers, no utterance is classified as a
\* correction or as off-topic, and every extraction returns a value valid for
\* its target field, then a conversation over n configured fields collects
\* one field per turn in the order required-first then optional (each in
\* configuration order) and eventually reaches Completed, in the turn that
\* collects the last field.

\* the turn in flight has left the claim's hypothesis
Disturbed ==
  \/ gs.should_escalate
  \/ gs.is_correction
  \/ gs.is_off_topic
  \/ /\ pc \in {"validate", "prompt_next", "complete", "end"}
     /\ gs.current_field # NULL
     /\ \/ gs.extracted_value = NULL
        \/ \A i \in DOMAIN fields :
             fields[i].name = gs.current_field
               => ~validate_field_value(fields[i], gs.extracted_value)

\* the positions of the fields without a valid value in record r
MissingIn(r, required) ==
  {i \in DOMAIN fields :
     /\ fields[i].required = required
     /\ ~(/\ fields[i].name \in DOMAIN r.collected_fields
          /\ r.collected_fields[fields[i].name].is_valid
          /\ r.collected_fields[fields[i].name].value # NULL)}

\* the names of the fields with a valid value in record r
ValidIn(r) ==
  {fields[i].name : i \in DOMAIN fields \ (MissingIn(r, TRUE) \cup MissingIn(r, FALSE))}

\* the field that is due in record r: required before optional, each in
\* configuration order
Due(r) ==
  IF MissingIn(r, TRUE) # {} THEN {fields[Lowest(MissingIn(r, TRUE))].name}
  ELSE IF MissingIn(r, FALSE) # {} THEN {fields[Lowest(MissingIn(r, FALSE))].name}
  ELSE {}

\* a turn within the hypothesis has collected the field that was due, only
\* that one, and has completed the conversation exactly when none is left
OneFieldPerTurn ==
  (pc = "end" /\ ~Disturbed /\ rec0.status = "active") =>
    /\ ValidIn(rec) = ValidIn(rec0) \cup Due(rec0)
    /\ Due(rec0) # {}
    /\ rec.status = "completed" <=> Due(rec) = {}
    /\ rec.status \in {"active", "completed"}

C40_OneFieldPerTurnUntilCompleted ==
  /\ []OneFieldPerTurn
  /\ <>(Disturbed \/ rec.status = "completed")

C40_Witness ==
  /\ pc = "end"
  /\ ~Disturbed
  /\ turns = 2
  /\ Len(fields) = 2
  /\ ~fields[1].required
  /\ ValidIn(rec0) = {fields[2].name}
  /\ rec0.status = "active"
  /\ rec.status = "completed"

====
